---- MODULE Spec2Model ----
(***************************************************************************)
(* Bucket / task reassignment engine of one-task-manager.                  *)
(*                                                                         *)
(* The bucket store and the task store are the arrays kept in localStorage *)
(* (api/buckets.api.ts, api/tasks.api.ts).  Every API call resolves in the *)
(* same tick (simulateApiCall) and every mutation invalidates its query,   *)
(* so the query cache a handler reads equals the store when the handler    *)
(* starts; the stores are therefore the state.  Ids are strings in the     *)
(* code and only ever compared for equality: they are numbered here.       *)
(***************************************************************************)
EXTENDS Integers, Sequences, FiniteSets, TLC

\* ---------------------------------------------------------------- bounds
NumBuckets == 3
NumTasks == 3
MaxLimit == 2

BucketIds == 1..NumBuckets
TaskIds == 1..NumTasks

\* `limit?: number` absent / undefined
Undefined == -1
\* no bucket / no task (null, undefined argument, findIndex miss is -1)
Null == 0

\* buckets and tasks are the two stores (tasks holds the active tasks);
\* pending is the bucket whose deletion has relocated its tasks and not yet
\* removed the bucket; last records the latest operation and what it returned;
\* isAddingTask is the set of buckets whose add row is open; completedTasks
\* is the list of completed tasks; opCount counts the operations of a task's
\* lifetime that have run.
VARIABLES buckets, tasks, pending, last, isAddingTask, completedTasks, opCount

vars == <<buckets, tasks, pending, last, isAddingTask, completedTasks, opCount>>

\* ------------------------------------------------------- array primitives
Range(s) == {s[i] : i \in DOMAIN s}

\* Array.prototype.findIndex on ids: 0-based index, -1 when absent
FindIndex(arr, id) ==
    IF \E i \in DOMAIN arr : arr[i].id = id
    THEN (CHOOSE i \in DOMAIN arr :
             arr[i].id = id /\ \A j \in 1..(i - 1) : arr[j].id # id) - 1
    ELSE -1

\* Array.prototype.find on ids, for an id that is present
Find(arr, id) == arr[FindIndex(arr, id) + 1]

Has(arr, id) == FindIndex(arr, id) # -1

\* insert x into the key-sorted array s after every element whose key is <= x's
RECURSIVE InsertSorted(_, _, _)
InsertSorted(s, x, key) ==
    IF s = <<>> THEN <<x>>
    ELSE IF x[key] < s[1][key] THEN <<x>> \o s
    ELSE <<s[1]>> \o InsertSorted(Tail(s), x, key)

\* Array.prototype.sort((a, b) => a[key] - b[key]): stable
RECURSIVE SortBy(_, _)
SortBy(s, key) ==
    IF s = <<>> THEN <<>>
    ELSE InsertSorted(SortBy(SubSeq(s, 1, Len(s) - 1), key), s[Len(s)], key)

\* @dnd-kit/sortable arrayMove(array, from, to), 0-based, 0 <= from, to < length
\* the two elements exchanged instead of one moved past the others
arrayMoveSwap(arr, from, to) ==
    [i \in DOMAIN arr |->
        IF i = from + 1 THEN arr[to + 1]
        ELSE IF i = to + 1 THEN arr[from + 1]
        ELSE arr[i]]

arrayMove(arr, from, to) ==
    LET x == arr[from + 1]
        rest == SubSeq(arr, 1, from) \o SubSeq(arr, from + 2, Len(arr))
    IN  SubSeq(rest, 1, to) \o <<x>> \o SubSeq(rest, to + 1, Len(rest))

\* { ...record, ...update }
Spread(rec, upd) ==
    [f \in DOMAIN rec \cup DOMAIN upd |->
        IF f \in DOMAIN upd THEN upd[f] ELSE rec[f]]

\* new Map(updates.map((u) => [u.id, u])): has(id), and get(id) where the
\* last update for an id wins
MapHas(updates, id) == \E i \in DOMAIN updates : updates[i].id = id

MapGet(updates, id) ==
    LET hits == {i \in DOMAIN updates : updates[i].id = id}
    IN  updates[CHOOSE i \in hits : \A j \in hits : j <= i]

\* JavaScript truthiness of an optional number
Truthy(n) == n # Undefined /\ n # 0

\* --------------------------------------------------------------- hydration
\* hydration that leaves each bucket's tasks in array order
hydrateBucketsWithTasksAsStored(bs, ts) ==
    SortBy([i \in DOMAIN bs |->
               Spread(bs[i],
                      [tasks |-> SelectSeq(ts, LAMBDA t : t.bucketId = bs[i].id)])],
           "order")

hydrateBucketsWithTasks(bs, ts) ==
    SortBy([i \in DOMAIN bs |->
               Spread(bs[i],
                      [tasks |-> SortBy(SelectSeq(ts, LAMBDA t : t.bucketId = bs[i].id),
                                        "orderInBucket")])],
           "order")

\* ----------------------------------------------------------------- stores
\* a batch write that reports success and stores nothing
bulkUpdateTasksLost(ts, updates) == ts

\* tasksApi.createTask: the stored list with { ...newTask, id } appended; the
\* generated id is one no stored task has
createTask(ts, newTask) ==
    LET used == {NumTasks} \cup {ts[i].id : i \in DOMAIN ts}
        id == 1 + CHOOSE m \in used : \A n \in used : n <= m
    IN  Append(ts, Spread(newTask, [id |-> id]))

\* tasksApi.updateTask: { ...task, ...updates } for the task with the id
updateTask(ts, taskId, updates) ==
    [i \in DOMAIN ts |-> IF ts[i].id = taskId THEN Spread(ts[i], updates) ELSE ts[i]]

\* tasksApi.deleteTask: the stored list without the task
deleteTask(ts, taskId) == SelectSeq(ts, LAMBDA t : t.id # taskId)

\* tasksApi.bulkUpdateTasks: patch the stored tasks named by the updates
bulkUpdateTasks(ts, updates) ==
    [i \in DOMAIN ts |->
        IF MapHas(updates, ts[i].id)
        THEN Spread(ts[i], MapGet(updates, ts[i].id)) ELSE ts[i]]

\* bucketsApi.updateBucket
updateBucket(bs, bucketId, updates) ==
    [i \in DOMAIN bs |->
        IF bs[i].id = bucketId THEN Spread(bs[i], updates) ELSE bs[i]]

\* bucketsApi.bulkUpdateBuckets
bulkUpdateBuckets(bs, updates) ==
    [i \in DOMAIN bs |->
        IF MapHas(updates, bs[i].id)
        THEN Spread(bs[i], MapGet(updates, bs[i].id)) ELSE bs[i]]

\* a removal that reports success and leaves the bucket stored
deleteBucketKept(bs, bucketId) == bs

\* bucketsApi.deleteBucket
deleteBucket(bs, bucketId) == SelectSeq(bs, LAMBDA b : b.id # bucketId)

\* ------------------------------------------------- bucket validation rules
Valid == [isValid |-> TRUE, message |-> "", targetBucketId |-> Null]

Invalid(msg) == [isValid |-> FALSE, message |-> msg, targetBucketId |-> Null]

\* canDeleteBucket without the check of isOneThing
canDeleteBucketUnprotected(bucketId, allBuckets) ==
    IF ~Has(allBuckets, bucketId) THEN Invalid("Bucket not found")
    ELSE LET bucketToDelete == Find(allBuckets, bucketId)
             unlimitedBuckets == SelectSeq(allBuckets, LAMBDA b : b.limit = Undefined)
         IN  IF bucketToDelete.limit = Undefined /\ Len(unlimitedBuckets) = 1
             THEN Invalid("At least one bucket must have no limit")
             ELSE Valid

\* canDeleteBucket refusing every unlimited bucket, not only the last one
canDeleteBucketAnyUnlimited(bucketId, allBuckets) ==
    IF ~Has(allBuckets, bucketId) THEN Invalid("Bucket not found")
    ELSE LET bucketToDelete == Find(allBuckets, bucketId)
         IN  IF bucketToDelete.isOneThing
             THEN Invalid("Cannot delete The ONE Thing bucket")
             ELSE IF bucketToDelete.limit = Undefined
             THEN Invalid("At least one bucket must have no limit")
             ELSE Valid

canDeleteBucket(bucketId, allBuckets) ==
    IF ~Has(allBuckets, bucketId) THEN Invalid("Bucket not found")
    ELSE LET bucketToDelete == Find(allBuckets, bucketId)
             unlimitedBuckets == SelectSeq(allBuckets, LAMBDA b : b.limit = Undefined)
         IN  IF bucketToDelete.isOneThing
             THEN Invalid("Cannot delete The ONE Thing bucket")
             ELSE IF bucketToDelete.limit = Undefined /\ Len(unlimitedBuckets) = 1
             THEN Invalid("At least one bucket must have no limit")
             ELSE Valid

\* canUpdateBucketLimit without the check of isOneThing
canUpdateBucketLimitOneThingFree(bucketId, newLimit, allBuckets) ==
    IF ~Has(allBuckets, bucketId) THEN Invalid("Bucket not found")
    ELSE LET bucket == Find(allBuckets, bucketId)
             otherUnlimitedBuckets ==
                 SelectSeq(allBuckets,
                           LAMBDA b : b.id # bucketId /\ b.limit = Undefined)
         IN  IF bucket.limit = Undefined /\ newLimit # Undefined
                /\ Len(otherUnlimitedBuckets) = 0
             THEN Invalid("At least one bucket must have no limit")
             ELSE Valid

\* canUpdateBucketLimit without the check of the last unlimited bucket
canUpdateBucketLimitAnyLimit(bucketId, newLimit, allBuckets) ==
    IF ~Has(allBuckets, bucketId) THEN Invalid("Bucket not found")
    ELSE IF Find(allBuckets, bucketId).isOneThing /\ newLimit # 1
    THEN Invalid("The ONE Thing bucket must have a limit of 1")
    ELSE Valid

\* canUpdateBucketLimit with the form's check against the task count added
canUpdateBucketLimitBelowCount(bucketId, newLimit, allBuckets) ==
    IF ~Has(allBuckets, bucketId) THEN Invalid("Bucket not found")
    ELSE LET bucket == Find(allBuckets, bucketId)
             otherUnlimitedBuckets ==
                 SelectSeq(allBuckets,
                           LAMBDA b : b.id # bucketId /\ b.limit = Undefined)
         IN  IF bucket.isOneThing /\ newLimit # 1
             THEN Invalid("The ONE Thing bucket must have a limit of 1")
             ELSE IF bucket.limit = Undefined /\ newLimit # Undefined
                      /\ Len(otherUnlimitedBuckets) = 0
             THEN Invalid("At least one bucket must have no limit")
             ELSE IF newLimit # Undefined /\ newLimit < Len(bucket.tasks)
             THEN Invalid("Cannot set limit below the task count")
             ELSE Valid

canUpdateBucketLimit(bucketId, newLimit, allBuckets) ==
    IF ~Has(allBuckets, bucketId) THEN Invalid("Bucket not found")
    ELSE LET bucket == Find(allBuckets, bucketId)
             otherUnlimitedBuckets ==
                 SelectSeq(allBuckets,
                           LAMBDA b : b.id # bucketId /\ b.limit = Undefined)
         IN  IF bucket.isOneThing /\ newLimit # 1
             THEN Invalid("The ONE Thing bucket must have a limit of 1")
             ELSE IF bucket.limit = Undefined /\ newLimit # Undefined
                      /\ Len(otherUnlimitedBuckets) = 0
             THEN Invalid("At least one bucket must have no limit")
             ELSE Valid

\* the loop asking for room for one task instead of room for all of them
RECURSIVE FirstWithSpaceForOne(_, _)
FirstWithSpaceForOne(otherBuckets, taskCount) ==
    IF otherBuckets = <<>> THEN Null
    ELSE LET bucket == otherBuckets[1]
             currentTaskCount == Len(bucket.tasks)
         IN  IF ~Truthy(bucket.limit) \/ bucket.limit - currentTaskCount >= 1
             THEN bucket.id
             ELSE FirstWithSpaceForOne(Tail(otherBuckets), taskCount)

\* the for loop of findFirstBucketWithSpace over the order-sorted other buckets
RECURSIVE FirstWithSpace(_, _)
FirstWithSpace(otherBuckets, taskCount) ==
    IF otherBuckets = <<>> THEN Null
    ELSE LET bucket == otherBuckets[1]
             currentTaskCount == Len(bucket.tasks)
         IN  IF ~Truthy(bucket.limit) \/ bucket.limit - currentTaskCount >= taskCount
             THEN bucket.id
             ELSE FirstWithSpace(Tail(otherBuckets), taskCount)

\* the search run over the array as given, without the sort by order
findFirstBucketWithSpaceUnsorted(sourceBucketId, taskCount, allBuckets) ==
    IF taskCount = 0 THEN Null
    ELSE FirstWithSpace(SelectSeq(allBuckets, LAMBDA b : b.id # sourceBucketId),
                        taskCount)

\* returns the id of the bucket found, Null for null
findFirstBucketWithSpace(sourceBucketId, taskCount, allBuckets) ==
    IF taskCount = 0 THEN Null
    ELSE FirstWithSpace(
             SortBy(SelectSeq(allBuckets, LAMBDA b : b.id # sourceBucketId), "order"),
             taskCount)

\* the relocation check asking for room for a single task
canDeleteBucketWithRelocationOfOne(bucketId, allBuckets) ==
    LET basicValidation == canDeleteBucket(bucketId, allBuckets)
    IN  IF ~basicValidation.isValid THEN basicValidation
        ELSE LET taskCount == Len(Find(allBuckets, bucketId).tasks)
                 targetBucket == findFirstBucketWithSpace(bucketId, 1, allBuckets)
             IN  IF taskCount = 0 THEN Valid
                 ELSE IF targetBucket = Null
                 THEN Invalid("No other bucket has space")
                 ELSE [isValid |-> TRUE, message |-> "", targetBucketId |-> targetBucket]

canDeleteBucketWithRelocation(bucketId, allBuckets) ==
    LET basicValidation == canDeleteBucket(bucketId, allBuckets)
    IN  IF ~basicValidation.isValid THEN basicValidation
        ELSE LET taskCount == Len(Find(allBuckets, bucketId).tasks)
                 targetBucket == findFirstBucketWithSpace(bucketId, taskCount, allBuckets)
             IN  IF taskCount = 0 THEN Valid
                 ELSE IF targetBucket = Null
                 THEN Invalid("No other bucket has space")
                 ELSE [isValid |-> TRUE, message |-> "", targetBucketId |-> targetBucket]

\* -------------------------------------- capacity rules, placement resolver
\* capacity judged on the current count alone
hasCapacityIgnoringIncoming(bucket, incomingCount) ==
    bucket.limit = Undefined \/ Len(bucket.tasks) < bucket.limit

hasCapacity(bucket, incomingCount) ==
    bucket.limit = Undefined \/ Len(bucket.tasks) + incomingCount <= bucket.limit

RECURSIVE FirstWithCapacity(_, _)
FirstWithCapacity(candidates, taskCount) ==
    IF candidates = <<>> THEN Null
    ELSE IF hasCapacity(candidates[1], taskCount) THEN candidates[1].id
    ELSE FirstWithCapacity(Tail(candidates), taskCount)

\* bucketId = Null stands for the thrown capacity-exhaustion error
findTargetBucketWithCapacity(taskCount, allBuckets, preferredBucketId, excludeBucketIds) ==
    LET candidates == SortBy(SelectSeq(allBuckets,
                                       LAMBDA b : b.id \notin excludeBucketIds),
                             "order")
        chosen == IF preferredBucketId # Null
                     /\ preferredBucketId \notin excludeBucketIds
                     /\ Has(allBuckets, preferredBucketId)
                     /\ hasCapacity(Find(allBuckets, preferredBucketId), taskCount)
                  THEN preferredBucketId
                  ELSE FirstWithCapacity(candidates, taskCount)
    IN  IF chosen = Null
        THEN [bucketId |-> Null, orderInBucket |-> 0, relocated |-> FALSE]
        ELSE [bucketId |-> chosen,
              orderInBucket |-> Len(Find(allBuckets, chosen).tasks),
              relocated |-> preferredBucketId # Null /\ chosen # preferredBucketId]

\* ------------------------------------------- reordering / relocation engine
\* every task taken, whatever its bucket
BucketTasksOfAll(ts, bucketId) == SortBy(ts, "orderInBucket")

BucketTasks(ts, bucketId) ==
    SortBy(SelectSeq(ts, LAMBDA t : t.bucketId = bucketId), "orderInBucket")

BucketTasksWithout(ts, bucketId, taskId) ==
    SortBy(SelectSeq(ts, LAMBDA t : t.bucketId = bucketId /\ t.id # taskId),
           "orderInBucket")

\* the reordered tasks numbered from 1
reorderTasksInBucketFromOne(ts, bucketId, activeId, overId) ==
    LET bucketTasks == BucketTasks(ts, bucketId)
        oldIndex == FindIndex(bucketTasks, activeId)
        newIndex == FindIndex(bucketTasks, overId)
        reordered == arrayMove(bucketTasks, oldIndex, newIndex)
    IN  IF oldIndex = -1 \/ newIndex = -1 THEN <<>>
        ELSE [i \in DOMAIN reordered |->
                 [id |-> reordered[i].id, orderInBucket |-> i]]

\* taskOps.reorderTasksInBucket: the patch list handed to bulkUpdateTasks
\* (empty for the early return)
reorderTasksInBucket(ts, bucketId, activeId, overId) ==
    LET bucketTasks == BucketTasks(ts, bucketId)
        oldIndex == FindIndex(bucketTasks, activeId)
        newIndex == FindIndex(bucketTasks, overId)
        reordered == arrayMove(bucketTasks, oldIndex, newIndex)
    IN  IF oldIndex = -1 \/ newIndex = -1 THEN <<>>
        ELSE [i \in DOMAIN reordered |->
                 [id |-> reordered[i].id, orderInBucket |-> i - 1]]

\* the hook of useReorderTasksInBucket, called with a task object
useReorderTasksInBucket(ts, task, overId) ==
    LET bucketTasks == BucketTasks(ts, task.bucketId)
        oldIndex == FindIndex(bucketTasks, task.id)
        newIndex == FindIndex(bucketTasks, overId)
        reordered == arrayMove(bucketTasks, oldIndex, newIndex)
    IN  IF oldIndex = -1 \/ newIndex = -1 THEN <<>>
        ELSE [i \in DOMAIN reordered |->
                 [id |-> reordered[i].id, orderInBucket |-> i - 1]]

\* reorderTasksInBucket of the state-based App: the next task array
appReorderTasksInBucket(ts, bucketId, activeId, overId) ==
    LET bucketTasks == BucketTasks(ts, bucketId)
        otherTasks == SelectSeq(ts, LAMBDA t : t.bucketId # bucketId)
        oldIndex == FindIndex(bucketTasks, activeId)
        newIndex == FindIndex(bucketTasks, overId)
        reordered == arrayMove(bucketTasks, oldIndex, newIndex)
    IN  IF oldIndex = -1 \/ newIndex = -1 THEN ts
        ELSE otherTasks \o [i \in DOMAIN reordered |->
                               Spread(reordered[i], [orderInBucket |-> i - 1])]

\* the move that patches the target bucket and leaves the source as it is
moveTaskBetweenBucketsTargetOnly(ts, sourceBucketId, targetBucketId, draggedTaskId, targetTaskId) ==
    IF ~Has(ts, draggedTaskId) THEN <<>>
    ELSE
    LET draggedTask == Find(ts, draggedTaskId)
        targetBucketTasks == BucketTasksWithout(ts, targetBucketId, draggedTaskId)
        tempArray == Append(targetBucketTasks,
                            Spread(draggedTask,
                                   [bucketId |-> targetBucketId,
                                    orderInBucket |-> Len(targetBucketTasks)]))
        found == FindIndex(tempArray, targetTaskId)
        targetIndex == IF targetTaskId # Null /\ found # -1
                       THEN found ELSE Len(tempArray) - 1
        reorderedTarget == arrayMove(tempArray, Len(tempArray) - 1, targetIndex)
    IN  [i \in DOMAIN reorderedTarget |->
            [id |-> reorderedTarget[i].id,
             bucketId |-> targetBucketId,
             orderInBucket |-> i - 1]]

\* taskOps.moveTaskBetweenBuckets: the patch list (targetTaskId = Null when
\* the argument is omitted)
moveTaskBetweenBuckets(ts, sourceBucketId, targetBucketId, draggedTaskId, targetTaskId) ==
    IF ~Has(ts, draggedTaskId) THEN <<>>
    ELSE
    LET draggedTask == Find(ts, draggedTaskId)
        targetBucketTasks == BucketTasksWithout(ts, targetBucketId, draggedTaskId)
        tempArray == Append(targetBucketTasks,
                            Spread(draggedTask,
                                   [bucketId |-> targetBucketId,
                                    orderInBucket |-> Len(targetBucketTasks)]))
        found == FindIndex(tempArray, targetTaskId)
        targetIndex == IF targetTaskId # Null /\ found # -1
                       THEN found ELSE Len(tempArray) - 1
        reorderedTarget == arrayMove(tempArray, Len(tempArray) - 1, targetIndex)
        targetUpdates == [i \in DOMAIN reorderedTarget |->
                             [id |-> reorderedTarget[i].id,
                              bucketId |-> targetBucketId,
                              orderInBucket |-> i - 1]]
        sourceBucketTasks == BucketTasksWithout(ts, sourceBucketId, draggedTaskId)
        sourceUpdates == [i \in DOMAIN sourceBucketTasks |->
                             [id |-> sourceBucketTasks[i].id,
                              orderInBucket |-> i - 1]]
    IN  targetUpdates \o sourceUpdates

\* the hook of useMoveTaskToBucket, called with a task object
useMoveTaskToBucket(ts, task, targetBucketId, targetTaskId) ==
    LET targetBucketTasks == BucketTasksWithout(ts, targetBucketId, task.id)
        tempArray == Append(targetBucketTasks,
                            Spread(task,
                                   [bucketId |-> targetBucketId,
                                    orderInBucket |-> Len(targetBucketTasks)]))
        found == FindIndex(tempArray, targetTaskId)
        targetIndex == IF targetTaskId # Null /\ found # -1
                       THEN found ELSE Len(tempArray) - 1
        reorderedTarget == arrayMove(tempArray, Len(tempArray) - 1, targetIndex)
        targetUpdates == [i \in DOMAIN reorderedTarget |->
                             [id |-> reorderedTarget[i].id,
                              bucketId |-> targetBucketId,
                              orderInBucket |-> i - 1]]
        sourceBucketTasks == BucketTasksWithout(ts, task.bucketId, task.id)
        sourceUpdates == [i \in DOMAIN sourceBucketTasks |->
                             [id |-> sourceBucketTasks[i].id,
                              orderInBucket |-> i - 1]]
    IN  targetUpdates \o sourceUpdates

\* relocated tasks numbered from 0 instead of from the target's task count
RelocationUpdatesFromZero(tasksToRelocate, targetBucketId, startOrder) ==
    [i \in DOMAIN tasksToRelocate |->
        [id |-> tasksToRelocate[i].id,
         bucketId |-> targetBucketId,
         orderInBucket |-> i - 1]]

\* relocated tasks appended in the reverse of their order
RelocationUpdatesReversed(tasksToRelocate, targetBucketId, startOrder) ==
    [i \in DOMAIN tasksToRelocate |->
        [id |-> tasksToRelocate[i].id,
         bucketId |-> targetBucketId,
         orderInBucket |-> startOrder + (Len(tasksToRelocate) - i)]]

\* useDeleteBucket: the patches that append tasksToRelocate to the target
RelocationUpdates(tasksToRelocate, targetBucketId, startOrder) ==
    [i \in DOMAIN tasksToRelocate |->
        [id |-> tasksToRelocate[i].id,
         bucketId |-> targetBucketId,
         orderInBucket |-> startOrder + (i - 1)]]

\* ------------------------------------------------------------------- state
\* `updates` of useUpdateBucket carrying no limit key at all
Absent == -2

LimitValues == {Undefined} \cup (1..MaxLimit)

\* what the last handler did: its name, the bucket a bucket handler was
\* asked to act on (Null for a task handler), and how it ended
Outcome(op, bucketId, result) == [op |-> op, bucketId |-> bucketId, result |-> result]

TaskCount(ts, bucketId) == Len(SelectSeq(ts, LAMBDA t : t.bucketId = bucketId))

\* tasks numbered in id order within their bucket
InitTasks(place) ==
    [i \in 1..NumTasks |->
        [id |-> i, bucketId |-> place[i],
         orderInBucket |-> Cardinality({j \in 1..(i - 1) : place[j] = place[i]})]]

\* The first bucket is The ONE Thing (limit 1, order 0); every bucket starts
\* within its limit and densely numbered.
Init ==
    /\ \E lim \in [BucketIds \ {1} -> LimitValues] :
          buckets = [i \in 1..NumBuckets |->
                        [id |-> i, order |-> i - 1, isOneThing |-> (i = 1),
                         limit |-> IF i = 1 THEN 1 ELSE lim[i]]]
    /\ \E place \in [TaskIds -> BucketIds] :
          /\ tasks = InitTasks(place)
          /\ \A i \in DOMAIN buckets :
                buckets[i].limit # Undefined
                    => TaskCount(tasks, buckets[i].id) <= buckets[i].limit
    /\ pending = Null
    /\ last = Outcome("init", Null, "ok")
    /\ isAddingTask = {}
    /\ completedTasks = <<>>
    /\ opCount = 0

\* ---------------------------------------------------------------- handlers
\* handleDragEnd, case 1: the dragged task is dropped on a task
DragEndOnTask(d, o) ==
    /\ pending = Null
    /\ UNCHANGED <<isAddingTask, completedTasks, opCount>>
    /\ Has(tasks, d) /\ Has(tasks, o)
    /\ LET sourceBucketId == Find(tasks, d).bucketId
           targetBucketId == Find(tasks, o).bucketId
       IN  IF sourceBucketId = targetBucketId
           THEN /\ tasks' = bulkUpdateTasks(tasks,
                                reorderTasksInBucket(tasks, sourceBucketId, d, o))
                /\ last' = Outcome("reorder", Null, "ok")
           ELSE /\ tasks' = bulkUpdateTasks(tasks,
                                moveTaskBetweenBuckets(tasks, sourceBucketId,
                                                       targetBucketId, d, o))
                /\ last' = Outcome("dropOnTask", Null, "ok")
    /\ UNCHANGED <<buckets, pending>>

\* handleDragEnd, case 2: the dragged task is dropped on a bucket
DragEndOnBucket(d, b) ==
    /\ pending = Null
    /\ UNCHANGED <<isAddingTask, completedTasks, opCount>>
    /\ Has(tasks, d) /\ Has(buckets, b)
    /\ LET targetBucket == Find(buckets, b)
           sourceBucketId == Find(tasks, d).bucketId
           targetBucketTaskCount == TaskCount(tasks, b)
       IN  IF Truthy(targetBucket.limit) /\ targetBucketTaskCount >= targetBucket.limit
           THEN /\ last' = Outcome("dropOnBucket", Null, "rejected")
                /\ UNCHANGED tasks
           ELSE IF sourceBucketId # b
           THEN /\ tasks' = bulkUpdateTasks(tasks,
                                moveTaskBetweenBuckets(tasks, sourceBucketId, b, d, Null))
                /\ last' = Outcome("dropOnBucket", Null, "ok")
           ELSE /\ last' = Outcome("dropOnBucket", Null, "noop")
                /\ UNCHANGED tasks
    /\ UNCHANGED <<buckets, pending>>

\* "Move to" submenu of ActionsCell, wired to useMoveTaskToBucket by TaskRow
MenuMoveTo(t, b) ==
    /\ pending = Null
    /\ UNCHANGED <<isAddingTask, completedTasks, opCount>>
    /\ Has(tasks, t) /\ Has(buckets, b)
    /\ b # Find(tasks, t).bucketId
    /\ LET bucket == Find(hydrateBucketsWithTasks(buckets, tasks), b)
           isFull == Truthy(bucket.limit) /\ Len(bucket.tasks) >= bucket.limit
       IN  IF isFull
           THEN /\ last' = Outcome("moveTo", Null, "rejected")
                /\ UNCHANGED tasks
           ELSE /\ tasks' = bulkUpdateTasks(tasks,
                                useMoveTaskToBucket(tasks, Find(tasks, t), b, Null))
                /\ last' = Outcome("moveTo", Null, "ok")
    /\ UNCHANGED <<buckets, pending>>

\* the hook of useReorderTasksInBucket applied to a task and an over id
ReorderInBucket(t, o) ==
    /\ pending = Null
    /\ UNCHANGED <<isAddingTask, completedTasks, opCount>>
    /\ Has(tasks, t) /\ Has(tasks, o)
    /\ Find(tasks, t).bucketId = Find(tasks, o).bucketId
    /\ tasks' = bulkUpdateTasks(tasks, useReorderTasksInBucket(tasks, Find(tasks, t), o))
    /\ last' = Outcome("reorder", Null, "ok")
    /\ UNCHANGED <<buckets, pending>>

\* useUpdateBucket.mutationFn with updates = { limit: newLimit } (Absent: no
\* limit key in the updates)
UseUpdateBucket(b, newLimit) ==
    /\ pending = Null
    /\ UNCHANGED <<isAddingTask, completedTasks, opCount>>
    /\ LET validation == canUpdateBucketLimit(b, newLimit, buckets)
           updates == IF newLimit = Absent THEN <<>> ELSE [limit |-> newLimit]
       IN  IF newLimit # Absent /\ newLimit # Undefined /\ ~validation.isValid
           THEN /\ last' = Outcome("updateBucket", b, validation.message)
                /\ UNCHANGED buckets
           ELSE /\ buckets' = updateBucket(buckets, b, updates)
                /\ last' = Outcome("updateBucket", b, IF Has(buckets, b) THEN "ok" ELSE "Bucket not found")
    /\ UNCHANGED <<tasks, pending>>

\* an await that swallows the rejection: the removal follows all the same
awaitBulkUpdateTasksSwallowed(bucketId, rejected) == bucketId

\* `await tasksApi.bulkUpdateTasks(taskUpdates)`: the bucket whose removal
\* follows the await, none when the promise rejects and the mutationFn throws
awaitBulkUpdateTasks(bucketId, rejected) == IF rejected THEN Null ELSE bucketId

\* useDeleteBucket.mutationFn up to the await of bulkUpdateTasks (hooks/useBuckets.ts)
UseDeleteBucket(b) ==
    /\ pending = Null
    /\ UNCHANGED <<isAddingTask, completedTasks, opCount>>
    /\ LET hydratedBuckets == hydrateBucketsWithTasks(buckets, tasks)
           validation == canDeleteBucket(b, hydratedBuckets)
           tasksToRelocate == Find(hydratedBuckets, b).tasks
           target == findTargetBucketWithCapacity(Len(tasksToRelocate),
                                                  hydratedBuckets, Null, {b})
       IN  IF ~validation.isValid
           THEN /\ last' = Outcome("deleteBucket", b, validation.message)
                /\ UNCHANGED <<buckets, tasks, pending>>
           ELSE IF Len(tasksToRelocate) > 0
           THEN IF target.bucketId = Null
                THEN /\ last' = Outcome("deleteBucket", b, "No other bucket has space")
                     /\ UNCHANGED <<buckets, tasks, pending>>
                ELSE /\ tasks' = bulkUpdateTasks(tasks,
                                     RelocationUpdates(tasksToRelocate, target.bucketId,
                                                       target.orderInBucket))
                     /\ pending' = awaitBulkUpdateTasks(b, FALSE)
                     /\ last' = Outcome("deleteBucket", b, "relocated")
                     /\ UNCHANGED buckets
           ELSE /\ buckets' = deleteBucket(buckets, b)
                /\ last' = Outcome("deleteBucket", b, "ok")
                /\ UNCHANGED <<tasks, pending>>

\* the same mutationFn in the variant built on canDeleteBucketWithRelocation
UseDeleteBucketWithRelocation(b) ==
    /\ pending = Null
    /\ UNCHANGED <<isAddingTask, completedTasks, opCount>>
    /\ LET hydratedBuckets == hydrateBucketsWithTasks(buckets, tasks)
           validation == canDeleteBucketWithRelocation(b, hydratedBuckets)
           tasksToRelocate == Find(hydratedBuckets, b).tasks
           targetBucketTaskCount ==
               Len(Find(hydratedBuckets, validation.targetBucketId).tasks)
       IN  IF ~validation.isValid
           THEN /\ last' = Outcome("deleteBucket", b, validation.message)
                /\ UNCHANGED <<buckets, tasks, pending>>
           ELSE IF Len(tasksToRelocate) > 0 /\ validation.targetBucketId # Null
           THEN /\ tasks' = bulkUpdateTasks(tasks,
                                RelocationUpdates(tasksToRelocate,
                                                  validation.targetBucketId,
                                                  targetBucketTaskCount))
                /\ pending' = awaitBulkUpdateTasks(b, FALSE)
                /\ last' = Outcome("deleteBucket", b, "relocated")
                /\ UNCHANGED buckets
           ELSE /\ buckets' = deleteBucket(buckets, b)
                /\ last' = Outcome("deleteBucket", b, "ok")
                /\ UNCHANGED <<tasks, pending>>

\* useDeleteBucket.mutationFn when the relocation write throws: the store
\* call fails before saveTasksToStorage has written
UseDeleteBucketWriteFails(b) ==
    /\ pending = Null
    /\ UNCHANGED <<isAddingTask, completedTasks, opCount>>
    /\ LET hydratedBuckets == hydrateBucketsWithTasks(buckets, tasks)
           tasksToRelocate == Find(hydratedBuckets, b).tasks
       IN  /\ canDeleteBucket(b, hydratedBuckets).isValid
           /\ Len(tasksToRelocate) > 0
           /\ findTargetBucketWithCapacity(Len(tasksToRelocate), hydratedBuckets,
                                           Null, {b}).bucketId # Null
    /\ pending' = awaitBulkUpdateTasks(b, TRUE)
    /\ last' = Outcome("deleteBucket", b, "write failed")
    /\ UNCHANGED <<buckets, tasks>>

\* the same in the variant built on canDeleteBucketWithRelocation
UseDeleteBucketWithRelocationWriteFails(b) ==
    /\ pending = Null
    /\ UNCHANGED <<isAddingTask, completedTasks, opCount>>
    /\ LET hydratedBuckets == hydrateBucketsWithTasks(buckets, tasks)
           validation == canDeleteBucketWithRelocation(b, hydratedBuckets)
       IN  /\ validation.isValid
           /\ Len(Find(hydratedBuckets, b).tasks) > 0
           /\ validation.targetBucketId # Null
    /\ pending' = awaitBulkUpdateTasks(b, TRUE)
    /\ last' = Outcome("deleteBucket", b, "write failed")
    /\ UNCHANGED <<buckets, tasks>>

\* useDeleteBucket.mutationFn after the await: bucketsApi.deleteBucket
FinishDeleteBucket ==
    /\ pending # Null
    /\ UNCHANGED <<isAddingTask, completedTasks, opCount>>
    /\ buckets' = deleteBucket(buckets, pending)
    /\ pending' = Null
    /\ last' = Outcome("deleteBucket", pending, "ok")
    /\ UNCHANGED tasks

\* useMoveBucket without the check of the bucket it swaps with
useMoveBucketPastFirst(bs, bucketId, direction) ==
    LET sorted == SortBy(bs, "order")
        currentIndex == FindIndex(sorted, bucketId)
        targetIndex == IF direction = "up" THEN currentIndex - 1 ELSE currentIndex + 1
    IN  IF currentIndex = -1 THEN <<>>
        ELSE IF currentIndex = 0 \/ sorted[currentIndex + 1].isOneThing THEN <<>>
        ELSE IF targetIndex < 0 \/ targetIndex >= Len(sorted) THEN <<>>
        ELSE << [id |-> sorted[currentIndex + 1].id,
                 order |-> sorted[targetIndex + 1].order],
                [id |-> sorted[targetIndex + 1].id,
                 order |-> sorted[currentIndex + 1].order] >>

\* useMoveBucket patching the moved bucket alone
useMoveBucketOneSided(bs, bucketId, direction) ==
    LET sorted == SortBy(bs, "order")
        currentIndex == FindIndex(sorted, bucketId)
        targetIndex == IF direction = "up" THEN currentIndex - 1 ELSE currentIndex + 1
    IN  IF currentIndex = -1 THEN <<>>
        ELSE IF currentIndex = 0 \/ sorted[currentIndex + 1].isOneThing THEN <<>>
        ELSE IF targetIndex < 0 \/ targetIndex >= Len(sorted) THEN <<>>
        ELSE IF targetIndex = 0 \/ sorted[targetIndex + 1].isOneThing THEN <<>>
        ELSE << [id |-> sorted[currentIndex + 1].id,
                 order |-> sorted[targetIndex + 1].order] >>

\* the callback returned by useMoveBucket: the order patches it applies
\* (empty for each early return)
useMoveBucket(bs, bucketId, direction) ==
    LET sorted == SortBy(bs, "order")
        currentIndex == FindIndex(sorted, bucketId)
        targetIndex == IF direction = "up" THEN currentIndex - 1 ELSE currentIndex + 1
    IN  IF currentIndex = -1 THEN <<>>
        ELSE IF currentIndex = 0 \/ sorted[currentIndex + 1].isOneThing THEN <<>>
        ELSE IF targetIndex < 0 \/ targetIndex >= Len(sorted) THEN <<>>
        ELSE IF targetIndex = 0 \/ sorted[targetIndex + 1].isOneThing THEN <<>>
        ELSE << [id |-> sorted[currentIndex + 1].id,
                 order |-> sorted[targetIndex + 1].order],
                [id |-> sorted[targetIndex + 1].id,
                 order |-> sorted[currentIndex + 1].order] >>

UseMoveBucket(b, direction) ==
    /\ pending = Null
    /\ UNCHANGED <<isAddingTask, completedTasks, opCount>>
    /\ buckets' = bulkUpdateBuckets(buckets, useMoveBucket(buckets, b, direction))
    /\ last' = Outcome("moveBucket", b,
                       IF useMoveBucket(buckets, b, direction) = <<>>
                       THEN "noop" ELSE "ok")
    /\ UNCHANGED <<tasks, pending>>

Next ==
    \/ \E d \in TaskIds, o \in TaskIds : DragEndOnTask(d, o)
    \/ \E d \in TaskIds, b \in BucketIds : DragEndOnBucket(d, b)
    \/ \E t \in TaskIds, b \in BucketIds : MenuMoveTo(t, b)
    \/ \E t \in TaskIds, o \in TaskIds : ReorderInBucket(t, o)
    \/ \E b \in BucketIds, l \in LimitValues \cup {Absent} : UseUpdateBucket(b, l)
    \/ \E b \in BucketIds : UseDeleteBucket(b)
    \/ \E b \in BucketIds : UseDeleteBucketWithRelocation(b)
    \/ \E b \in BucketIds : UseDeleteBucketWriteFails(b)
    \/ \E b \in BucketIds : UseDeleteBucketWithRelocationWriteFails(b)
    \/ FinishDeleteBucket
    \/ \E b \in BucketIds, dir \in {"up", "down"} : UseMoveBucket(b, dir)

Spec == Init /\ [][Next]_vars

\* ------------------------------------ the rules applied to any bucket list
\* The validation rules and the placement resolver are pure functions of the
\* list they are handed. Here the list is arbitrary: any subset of the ids,
\* any flags and limits, over or under its limits, array order agreeing with
\* `order` or opposed to it.
BucketShapes ==
    {c \in [present : BOOLEAN, isOneThing : BOOLEAN, limit : LimitValues] :
        ~c.present => (~c.isOneThing /\ c.limit = Undefined)}

PresentIds(shape) == SelectSeq([i \in 1..NumBuckets |-> i], LAMBDA i : shape[i].present)

\* the `.map` of hydration alone: tasks attached, array order untouched
attachTasks(bs, ts) ==
    [i \in DOMAIN bs |->
        Spread(bs[i],
               [tasks |-> SortBy(SelectSeq(ts, LAMBDA t : t.bucketId = bs[i].id),
                                 "orderInBucket")])]

InitRules ==
    /\ \E shape \in [BucketIds -> BucketShapes], reversed \in BOOLEAN :
          buckets = [k \in DOMAIN PresentIds(shape) |->
                        LET i == PresentIds(shape)[k]
                        IN  [id |-> i,
                             order |-> IF reversed THEN NumBuckets - i ELSE i - 1,
                             isOneThing |-> shape[i].isOneThing,
                             limit |-> shape[i].limit]]
    /\ \E place \in [TaskIds -> BucketIds] :
          /\ \A i, j \in TaskIds : i < j => place[i] <= place[j]
          /\ tasks = InitTasks(place)
    /\ pending = Null
    /\ last = Outcome("init", Null, "ok")
    /\ isAddingTask = {}
    /\ completedTasks = <<>>
    /\ opCount = 0

\* each behaviour draws one list and applies one call to it
CallCanDeleteBucket(b) ==
    /\ last.op = "init"
    /\ UNCHANGED <<isAddingTask, completedTasks, opCount>>
    /\ last' = Outcome("canDeleteBucket", b,
                       canDeleteBucket(b, attachTasks(buckets, tasks)))
    /\ UNCHANGED <<buckets, tasks, pending>>

CallFindTargetBucketWithCapacity(taskCount, preferredBucketId, excludeBucketIds) ==
    /\ last.op = "init"
    /\ UNCHANGED <<isAddingTask, completedTasks, opCount>>
    /\ last' = Outcome("findTargetBucketWithCapacity", preferredBucketId,
                       [taskCount |-> taskCount,
                        excludeBucketIds |-> excludeBucketIds,
                        value |-> findTargetBucketWithCapacity(
                                      taskCount, attachTasks(buckets, tasks),
                                      preferredBucketId, excludeBucketIds)])
    /\ UNCHANGED <<buckets, tasks, pending>>

CallCanUpdateBucketLimit(b, newLimit) ==
    /\ last.op = "init"
    /\ UNCHANGED <<isAddingTask, completedTasks, opCount>>
    /\ last' = Outcome("canUpdateBucketLimit", b,
                       [newLimit |-> newLimit,
                        value |-> canUpdateBucketLimit(
                                      b, newLimit, attachTasks(buckets, tasks))])
    /\ UNCHANGED <<buckets, tasks, pending>>

CallFindFirstBucketWithSpace(sourceBucketId, taskCount) ==
    /\ last.op = "init"
    /\ UNCHANGED <<isAddingTask, completedTasks, opCount>>
    /\ last' = Outcome("findFirstBucketWithSpace", sourceBucketId,
                       [taskCount |-> taskCount,
                        value |-> findFirstBucketWithSpace(
                                      sourceBucketId, taskCount,
                                      attachTasks(buckets, tasks))])
    /\ UNCHANGED <<buckets, tasks, pending>>

CallCanDeleteBucketWithRelocation(b) ==
    /\ last.op = "init"
    /\ UNCHANGED <<isAddingTask, completedTasks, opCount>>
    /\ last' = Outcome("canDeleteBucketWithRelocation", b,
                       canDeleteBucketWithRelocation(b, attachTasks(buckets, tasks)))
    /\ UNCHANGED <<buckets, tasks, pending>>

NextRules ==
    \/ \E b \in BucketIds : CallCanDeleteBucket(b)
    \/ \E taskCount \in 1..MaxLimit, preferredBucketId \in BucketIds \cup {Null},
          excludeBucketIds \in {e \in SUBSET BucketIds : Cardinality(e) <= 1} :
          CallFindTargetBucketWithCapacity(taskCount, preferredBucketId,
                                           excludeBucketIds)
    \/ \E b \in BucketIds, newLimit \in LimitValues :
          CallCanUpdateBucketLimit(b, newLimit)
    \/ \E sourceBucketId \in BucketIds, taskCount \in 0..MaxLimit :
          CallFindFirstBucketWithSpace(sourceBucketId, taskCount)
    \/ \E b \in BucketIds : CallCanDeleteBucketWithRelocation(b)

SpecRules == InitRules /\ [][NextRules]_vars

\* ------------------------------------- the engine applied to any task list
\* The reorder and move functions read the task list alone.  Here the list
\* is arbitrary: any placement, any orderInBucket values (gaps and ties
\* included), and a bucket list in either array order or with a bucket gone.
BucketLayouts == {"ascending", "descending", "withoutSecond"}

LayoutBuckets(layout) ==
    LET all == [i \in 1..NumBuckets |->
                   [id |-> IF layout = "descending" THEN NumBuckets + 1 - i ELSE i,
                    order |-> IF layout = "descending" THEN NumBuckets - i ELSE i - 1,
                    isOneThing |-> (IF layout = "descending"
                                    THEN i = NumBuckets ELSE i = 1),
                    limit |-> IF (IF layout = "descending"
                                  THEN i = NumBuckets ELSE i = 1)
                              THEN 1 ELSE Undefined]]
    IN  IF layout = "withoutSecond" THEN SelectSeq(all, LAMBDA b : b.id # 2) ELSE all

InitEngine ==
    /\ \E layout \in BucketLayouts : buckets = LayoutBuckets(layout)
    /\ \E place \in [TaskIds -> BucketIds], ord \in [TaskIds -> 0..(NumTasks - 1)] :
          tasks = [i \in 1..NumTasks |->
                      [id |-> i, bucketId |-> place[i], orderInBucket |-> ord[i]]]
    /\ pending = Null
    /\ last = Outcome("init", Null, "ok")
    /\ isAddingTask = {}
    /\ completedTasks = <<>>
    /\ opCount = 0

\* what a call of the engine was given: the two ids and the list before it
EngineCall(activeId, overId) ==
    [activeId |-> activeId, overId |-> overId, before |-> tasks]

\* each behaviour draws one list and applies one call to it
ApplyReorderTasksInBucket(a, o) ==
    /\ last.op = "init"
    /\ UNCHANGED <<isAddingTask, completedTasks, opCount>>
    /\ tasks' = bulkUpdateTasks(tasks,
                     reorderTasksInBucket(tasks, Find(tasks, a).bucketId, a, o))
    /\ last' = Outcome("reorderTasksInBucket", Find(tasks, a).bucketId,
                       EngineCall(a, o))
    /\ UNCHANGED <<buckets, pending>>

ApplyUseReorderTasksInBucket(a, o) ==
    /\ last.op = "init"
    /\ UNCHANGED <<isAddingTask, completedTasks, opCount>>
    /\ tasks' = bulkUpdateTasks(tasks, useReorderTasksInBucket(tasks, Find(tasks, a), o))
    /\ last' = Outcome("useReorderTasksInBucket", Find(tasks, a).bucketId,
                       EngineCall(a, o))
    /\ UNCHANGED <<buckets, pending>>

ApplyAppReorderTasksInBucket(a, o) ==
    /\ last.op = "init"
    /\ UNCHANGED <<isAddingTask, completedTasks, opCount>>
    /\ tasks' = appReorderTasksInBucket(tasks, Find(tasks, a).bucketId, a, o)
    /\ last' = Outcome("appReorderTasksInBucket", Find(tasks, a).bucketId,
                       EngineCall(a, o))
    /\ UNCHANGED <<buckets, pending>>

\* the calls the handlers make: the source is the dragged task's bucket and
\* the target another bucket; overId is Null when no target task is given
ApplyMoveTaskBetweenBuckets(d, targetBucketId, targetTaskId) ==
    /\ last.op = "init"
    /\ UNCHANGED <<isAddingTask, completedTasks, opCount>>
    /\ Find(tasks, d).bucketId # targetBucketId
    /\ tasks' = bulkUpdateTasks(tasks,
                     moveTaskBetweenBuckets(tasks, Find(tasks, d).bucketId,
                                            targetBucketId, d, targetTaskId))
    /\ last' = Outcome("moveTaskBetweenBuckets", targetBucketId,
                       EngineCall(d, targetTaskId))
    /\ UNCHANGED <<buckets, pending>>

ApplyUseMoveTaskToBucket(d, targetBucketId, targetTaskId) ==
    /\ last.op = "init"
    /\ UNCHANGED <<isAddingTask, completedTasks, opCount>>
    /\ Find(tasks, d).bucketId # targetBucketId
    /\ tasks' = bulkUpdateTasks(tasks,
                     useMoveTaskToBucket(tasks, Find(tasks, d), targetBucketId,
                                         targetTaskId))
    /\ last' = Outcome("useMoveTaskToBucket", targetBucketId,
                       EngineCall(d, targetTaskId))
    /\ UNCHANGED <<buckets, pending>>

ApplyHydrateBucketsWithTasks ==
    /\ last.op = "init"
    /\ UNCHANGED <<isAddingTask, completedTasks, opCount>>
    /\ last' = Outcome("hydrateBucketsWithTasks", Null,
                       hydrateBucketsWithTasks(buckets, tasks))
    /\ UNCHANGED <<buckets, tasks, pending>>

\* BucketSection.handleAddTaskClick: the add row opens unless the hydrated
\* bucket is at its limit
handleAddTaskClick(bucket) ==
    ~(Truthy(bucket.limit) /\ Len(bucket.tasks) >= bucket.limit)

\* an add row whose new task goes to the top of the bucket
handleSaveNewTaskAtTop(ts, bucket) ==
    createTask(ts, [bucketId |-> bucket.id, orderInBucket |-> 0])

\* BucketSection.handleSaveNewTask: the new task takes the length of the
\* hydrated bucket's list as its orderInBucket
handleSaveNewTask(ts, bucket) ==
    createTask(ts, [bucketId |-> bucket.id, orderInBucket |-> Len(bucket.tasks)])

\* useTaskOperations.duplicateTask: the copy goes to the task's bucket, or,
\* when that bucket is full, to the first bucket of the array with room; it
\* takes the number of tasks of its bucket as orderInBucket.  bucketId is
\* Null, and nothing is stored, for the thrown error.
duplicateTask(ts, task, bs) ==
    LET room(bucket) ==
            ~Truthy(bucket.limit) \/ TaskCount(ts, bucket.id) < bucket.limit
        currentHasCapacity ==
            ~Has(bs, task.bucketId) \/ room(Find(bs, task.bucketId))
        available == {i \in DOMAIN bs : room(bs[i])}
        targetBucketId ==
            IF currentHasCapacity THEN task.bucketId
            ELSE IF available = {} THEN Null
            ELSE bs[CHOOSE i \in available : \A j \in available : i <= j].id
    IN  IF targetBucketId = Null
        THEN [bucketId |-> Null, tasks |-> ts]
        ELSE [bucketId |-> targetBucketId,
              tasks |-> createTask(ts, [bucketId |-> targetBucketId,
                                        orderInBucket |->
                                            TaskCount(ts, targetBucketId)])]

\* what a creation was given and the id it stored (Null when it stored none)
CreationCall(created) == [before |-> tasks, created |-> created]

\* the add row of a listed bucket: clicked, and saved when it opened
ApplyHandleSaveNewTask(b) ==
    /\ last.op = "init"
    /\ UNCHANGED <<isAddingTask, completedTasks, opCount>>
    /\ Has(buckets, b)
    /\ LET bucket == Find(hydrateBucketsWithTasks(buckets, tasks), b)
       IN  IF handleAddTaskClick(bucket)
           THEN /\ tasks' = handleSaveNewTask(tasks, bucket)
                /\ last' = Outcome("handleSaveNewTask", b,
                                   CreationCall(tasks'[Len(tasks')].id))
           ELSE /\ tasks' = tasks
                /\ last' = Outcome("handleAddTaskClick", b, CreationCall(Null))
    /\ UNCHANGED <<buckets, pending>>

\* the duplicate entry of a task's menu, given the hydrated buckets
ApplyDuplicateTask(t) ==
    /\ last.op = "init"
    /\ UNCHANGED <<isAddingTask, completedTasks, opCount>>
    /\ LET r == duplicateTask(tasks, Find(tasks, t),
                              hydrateBucketsWithTasks(buckets, tasks))
       IN  /\ tasks' = r.tasks
           /\ last' = Outcome("duplicateTask", r.bucketId,
                              CreationCall(IF r.bucketId = Null THEN Null
                                           ELSE r.tasks[Len(r.tasks)].id))
    /\ UNCHANGED <<buckets, pending>>

\* a cache patch that also stores the entries whose id no task has
setQueryDataUpserting(ts, updates) ==
    [i \in DOMAIN ts |->
        IF MapHas(updates, ts[i].id)
        THEN Spread(ts[i], MapGet(updates, ts[i].id)) ELSE ts[i]]
    \o SelectSeq(updates, LAMBDA u : ~Has(ts, u.id))

\* the synchronous cache patch of the two drag hooks:
\* queryClient.setQueryData(taskKeys.lists(), tasks.map(... updateMap.get ...))
setQueryData(ts, updates) ==
    [i \in DOMAIN ts |->
        IF MapHas(updates, ts[i].id)
        THEN Spread(ts[i], MapGet(updates, ts[i].id)) ELSE ts[i]]

\* the list both the cache and the store hold when a hook is called: the
\* drawn list, or the drawn list after the task `gone` has been deleted
\* while a row still holds the task object
ListWithout(gone) == IF gone = Null THEN tasks ELSE deleteTask(tasks, gone)

\* what a hook was given, the patches it built, and the cache and the store
\* after the patches
PatchedBoth(before, updates) ==
    [before |-> before, updates |-> updates,
     cached |-> setQueryData(before, updates),
     stored |-> bulkUpdateTasks(before, updates)]

\* the reorder hook: cache patch, then bulkUpdate.mutate(updates)
ApplyOptimisticReorder(a, o, gone) ==
    /\ last.op = "init"
    /\ UNCHANGED <<isAddingTask, completedTasks, opCount>>
    /\ LET before == ListWithout(gone)
           r == PatchedBoth(before,
                            useReorderTasksInBucket(before, Find(tasks, a), o))
       IN  /\ tasks' = r.stored
           /\ last' = Outcome("useReorderTasksInBucket.cache", Find(tasks, a).bucketId, r)
    /\ UNCHANGED <<buckets, pending>>

\* the move hook: cache patch, then bulkUpdate.mutate(allUpdates)
ApplyOptimisticMove(d, targetBucketId, targetTaskId, gone) ==
    /\ last.op = "init"
    /\ UNCHANGED <<isAddingTask, completedTasks, opCount>>
    /\ LET before == ListWithout(gone)
           r == PatchedBoth(before,
                            useMoveTaskToBucket(before, Find(tasks, d),
                                                targetBucketId, targetTaskId))
       IN  /\ tasks' = r.stored
           /\ last' = Outcome("useMoveTaskToBucket.cache", targetBucketId, r)
    /\ UNCHANGED <<buckets, pending>>

\* a capacity check that lets every move through
canMoveTaskToBucketAlways(bs, ts, taskId, targetBucketId) == TRUE

\* canMoveTaskToBucket of the state-based App
canMoveTaskToBucket(bs, ts, taskId, targetBucketId) ==
    IF ~Has(bs, targetBucketId) \/ ~Truthy(Find(bs, targetBucketId).limit) THEN TRUE
    ELSE LET currentTasksInBucket == SelectSeq(ts, LAMBDA t : t.bucketId = targetBucketId)
             taskAlreadyInBucket == Has(currentTasksInBucket, taskId)
         IN  IF taskAlreadyInBucket THEN TRUE
             ELSE Len(currentTasksInBucket) < Find(bs, targetBucketId).limit

\* moveTaskToBucket of the state-based App: the next task array
appMoveTaskToBucket(bs, ts, sourceBucketId, targetBucketId, draggedTaskId, targetTaskId) ==
    IF ~canMoveTaskToBucket(bs, ts, draggedTaskId, targetBucketId) THEN ts
    ELSE IF ~Has(ts, draggedTaskId) THEN ts
    ELSE LET draggedTask == Find(ts, draggedTaskId)
             targetBucketTasks == BucketTasksWithout(ts, targetBucketId, draggedTaskId)
             tempArray == Append(targetBucketTasks,
                                 Spread(draggedTask,
                                        [bucketId |-> targetBucketId,
                                         orderInBucket |-> Len(targetBucketTasks)]))
             found == FindIndex(tempArray, targetTaskId)
             targetIndex == IF targetTaskId # Null /\ found # -1
                            THEN found ELSE Len(tempArray) - 1
             reorderedTarget == arrayMove(tempArray, Len(tempArray) - 1, targetIndex)
             updatedTargetTasks ==
                 [i \in DOMAIN reorderedTarget |->
                     Spread(reorderedTarget[i], [orderInBucket |-> i - 1])]
             remaining == BucketTasksWithout(ts, sourceBucketId, draggedTaskId)
             sourceBucketTasks ==
                 [i \in DOMAIN remaining |->
                     Spread(remaining[i], [orderInBucket |-> i - 1])]
             otherTasks ==
                 SelectSeq(ts, LAMBDA t : t.bucketId # sourceBucketId
                                          /\ t.bucketId # targetBucketId)
         IN  otherTasks \o sourceBucketTasks \o updatedTargetTasks

\* a call of canMoveTaskToBucket alone, the task's own bucket included
ApplyCanMoveTaskToBucket(t, targetBucketId) ==
    /\ last.op = "init"
    /\ last' = Outcome("canMoveTaskToBucket", targetBucketId,
                       [activeId |-> t, overId |-> Null, before |-> tasks,
                        canMove |-> canMoveTaskToBucket(buckets, tasks, t,
                                                        targetBucketId)])
    /\ UNCHANGED <<buckets, tasks, pending, isAddingTask, completedTasks, opCount>>

\* the App's drag handler moves a task out of its bucket
ApplyAppMoveTaskToBucket(d, targetBucketId, targetTaskId) ==
    /\ last.op = "init"
    /\ UNCHANGED <<isAddingTask, completedTasks, opCount>>
    /\ Find(tasks, d).bucketId # targetBucketId
    /\ tasks' = appMoveTaskToBucket(buckets, tasks, Find(tasks, d).bucketId,
                                    targetBucketId, d, targetTaskId)
    /\ last' = Outcome("appMoveTaskToBucket", targetBucketId,
                       [activeId |-> d, overId |-> targetTaskId, before |-> tasks,
                        canMove |-> canMoveTaskToBucket(buckets, tasks, d,
                                                        targetBucketId)])
    /\ UNCHANGED <<buckets, pending>>

NextEngine ==
    \/ \E a, o \in TaskIds : ApplyReorderTasksInBucket(a, o)
    \/ \E a, o \in TaskIds : ApplyUseReorderTasksInBucket(a, o)
    \/ \E a, o \in TaskIds : ApplyAppReorderTasksInBucket(a, o)
    \/ \E d \in TaskIds, targetBucketId \in BucketIds,
          targetTaskId \in TaskIds \cup {Null} :
          ApplyMoveTaskBetweenBuckets(d, targetBucketId, targetTaskId)
    \/ \E d \in TaskIds, targetBucketId \in BucketIds,
          targetTaskId \in TaskIds \cup {Null} :
          ApplyUseMoveTaskToBucket(d, targetBucketId, targetTaskId)
    \/ ApplyHydrateBucketsWithTasks
    \/ \E b \in BucketIds : ApplyHandleSaveNewTask(b)
    \/ \E t \in TaskIds : ApplyDuplicateTask(t)
    \/ \E d \in TaskIds, targetBucketId \in BucketIds,
          targetTaskId \in TaskIds \cup {Null} :
          ApplyAppMoveTaskToBucket(d, targetBucketId, targetTaskId)
    \/ \E t \in TaskIds, targetBucketId \in BucketIds :
          ApplyCanMoveTaskToBucket(t, targetBucketId)
    \/ \E x, o \in TaskIds, gone \in TaskIds \cup {Null} :
          ApplyOptimisticReorder(x, o, gone)
    \/ \E d \in TaskIds, targetBucketId \in BucketIds,
          targetTaskId \in TaskIds \cup {Null}, gone \in TaskIds \cup {Null} :
          ApplyOptimisticMove(d, targetBucketId, targetTaskId, gone)

SpecEngine == InitEngine /\ [][NextEngine]_vars

\* ------------------------------------------------- the lifetime of a task
\* Tasks are created by the add row of a bucket and by duplication, return
\* from the completed list, are moved by the "Move to" menu of the task row
\* and are deleted.  The add row stays open from the click to the save.
MaxCreated == 1

MaxOps == 3

MaxCompleted == 1

AnyTaskIds == 1..(NumTasks + MaxCreated)

\* useTaskOperations.moveTaskToBucket: one patch, for the moved task alone
moveTaskToBucket(ts, taskId, targetBucketId) ==
    IF ~Has(ts, taskId) THEN ts
    ELSE updateTask(ts, taskId,
                    [id |-> taskId, bucketId |-> targetBucketId,
                     orderInBucket |-> TaskCount(ts, targetBucketId)])

\* useDuplicateTask.mutationFn: the copy goes where the placement resolver
\* says; bucketId is Null, and nothing is stored, for the thrown error
useDuplicateTask(ts, task, bs) ==
    LET target == findTargetBucketWithCapacity(1, hydrateBucketsWithTasks(bs, ts),
                                               task.bucketId, {})
    IN  IF target.bucketId = Null
        THEN [bucketId |-> Null, tasks |-> ts]
        ELSE [bucketId |-> target.bucketId,
              tasks |-> createTask(ts, [bucketId |-> target.bucketId,
                                        orderInBucket |-> target.orderInBucket])]

\* useUncompleteTask.mutationFn, and the useUpdateTask.mutationFn it calls,
\* which resolves the placement again from the same two lists and patches
\* the task: the patch of the completed task, with bucketId Null for the
\* thrown error
useUncompleteTask(ts, task, bs) ==
    LET hydratedBuckets == hydrateBucketsWithTasks(bs, ts)
        first == findTargetBucketWithCapacity(1, hydratedBuckets, task.bucketId, {})
        again == findTargetBucketWithCapacity(1, hydratedBuckets, task.bucketId, {})
    IN  IF first.bucketId = Null
        THEN [bucketId |-> Null, orderInBucket |-> Null]
        ELSE [bucketId |-> again.bucketId, orderInBucket |-> again.orderInBucket]

\* The first bucket is The ONE Thing; each task is active or completed; the
\* active tasks are within the limits and densely numbered.
InitTasksLifetime ==
    /\ \E lim \in [BucketIds \ {1} -> LimitValues] :
          buckets = [i \in 1..NumBuckets |->
                        [id |-> i, order |-> i - 1, isOneThing |-> (i = 1),
                         limit |-> IF i = 1 THEN 1 ELSE lim[i]]]
    /\ \E place \in [TaskIds -> BucketIds], completed \in SUBSET TaskIds :
          /\ Cardinality(completed) <= MaxCompleted
          /\ tasks = SelectSeq(
                 [i \in 1..NumTasks |->
                     [id |-> i, bucketId |-> place[i],
                      orderInBucket |->
                          Cardinality({j \in 1..(i - 1) :
                                          j \notin completed /\ place[j] = place[i]})]],
                 LAMBDA t : t.id \notin completed)
          /\ completedTasks = SelectSeq(
                 [i \in 1..NumTasks |->
                     [id |-> i, bucketId |-> place[i], orderInBucket |-> 0]],
                 LAMBDA t : t.id \in completed)
          /\ \A i \in DOMAIN buckets :
                buckets[i].limit # Undefined
                    => TaskCount(tasks, buckets[i].id) <= buckets[i].limit
    /\ pending = Null
    /\ last = Outcome("init", Null, "ok")
    /\ isAddingTask = {}
    /\ opCount = 0

\* one more operation, while the bound allows it
CountOp == opCount < MaxOps /\ opCount' = opCount + 1

\* the creations still allowed by the bound
MayCreate == Len(tasks) + Len(completedTasks) < NumTasks + MaxCreated

\* BucketSection: a click on "Add task"
HandleAddTaskClick(b) ==
    /\ CountOp
    /\ b \notin isAddingTask
    /\ LET bucket == Find(hydrateBucketsWithTasks(buckets, tasks), b)
       IN  IF handleAddTaskClick(bucket)
           THEN /\ isAddingTask' = isAddingTask \cup {b}
                /\ last' = Outcome("handleAddTaskClick", b, "open")
           ELSE /\ isAddingTask' = isAddingTask
                /\ last' = Outcome("handleAddTaskClick", b, "refused")
    /\ UNCHANGED <<buckets, tasks, pending, completedTasks>>

\* BucketSection: the open add row is saved
HandleSaveNewTask(b) ==
    /\ CountOp
    /\ b \in isAddingTask
    /\ MayCreate
    /\ tasks' = handleSaveNewTask(tasks,
                                  Find(hydrateBucketsWithTasks(buckets, tasks), b))
    /\ isAddingTask' = isAddingTask \ {b}
    /\ last' = Outcome("handleSaveNewTask", b, CreationCall(tasks'[Len(tasks')].id))
    /\ UNCHANGED <<buckets, pending, completedTasks>>

\* BucketSection: the open add row is cancelled
HandleCancelAddTask(b) ==
    /\ CountOp
    /\ b \in isAddingTask
    /\ isAddingTask' = isAddingTask \ {b}
    /\ last' = Outcome("handleCancelAddTask", b, "ok")
    /\ UNCHANGED <<buckets, tasks, pending, completedTasks>>

\* TaskRow: "Duplicate" through useTaskOperations
DuplicateTask(t) ==
    /\ CountOp
    /\ Has(tasks, t)
    /\ MayCreate
    /\ LET r == duplicateTask(tasks, Find(tasks, t),
                              hydrateBucketsWithTasks(buckets, tasks))
       IN  /\ tasks' = r.tasks
           /\ last' = Outcome("duplicateTask", r.bucketId,
                              CreationCall(IF r.bucketId = Null THEN Null
                                           ELSE r.tasks[Len(r.tasks)].id))
    /\ UNCHANGED <<buckets, pending, isAddingTask, completedTasks>>

\* "Duplicate" through the useDuplicateTask hook
UseDuplicateTask(t) ==
    /\ CountOp
    /\ Has(tasks, t)
    /\ MayCreate
    /\ LET r == useDuplicateTask(tasks, Find(tasks, t), buckets)
       IN  /\ tasks' = r.tasks
           /\ last' = Outcome("useDuplicateTask", r.bucketId,
                              CreationCall(IF r.bucketId = Null THEN Null
                                           ELSE r.tasks[Len(r.tasks)].id))
    /\ UNCHANGED <<buckets, pending, isAddingTask, completedTasks>>

\* a completed task is marked incomplete through the useUncompleteTask hook
UseUncompleteTask(t) ==
    /\ CountOp
    /\ Has(completedTasks, t)
    /\ LET task == Find(completedTasks, t)
           patch == useUncompleteTask(tasks, task, buckets)
       IN  IF patch.bucketId = Null
           THEN /\ last' = Outcome("useUncompleteTask", Null, CreationCall(Null))
                /\ UNCHANGED <<tasks, completedTasks>>
           ELSE /\ tasks' = Append(tasks, Spread(task, patch))
                /\ completedTasks' = deleteTask(completedTasks, t)
                /\ last' = Outcome("useUncompleteTask", patch.bucketId,
                                   CreationCall(t))
    /\ UNCHANGED <<buckets, pending, isAddingTask>>

\* TaskRow: an entry of the "Move to" menu, which is disabled for a full bucket
MoveTaskToBucket(t, b) ==
    /\ CountOp
    /\ Has(tasks, t)
    /\ Find(tasks, t).bucketId # b
    /\ LET bucket == Find(hydrateBucketsWithTasks(buckets, tasks), b)
           isFull == Truthy(bucket.limit) /\ Len(bucket.tasks) >= bucket.limit
       IN  /\ ~isFull
           /\ tasks' = moveTaskToBucket(tasks, t, b)
           /\ last' = Outcome("moveTaskToBucket", b,
                              [before |-> tasks, taskId |-> t,
                               sourceBucketId |-> Find(tasks, t).bucketId])
    /\ UNCHANGED <<buckets, pending, isAddingTask, completedTasks>>

\* TaskRow: "Delete"
UseDeleteTask(t) ==
    /\ CountOp
    /\ Has(tasks, t)
    /\ tasks' = deleteTask(tasks, t)
    /\ last' = Outcome("deleteTask", Find(tasks, t).bucketId,
                       [before |-> tasks, taskId |-> t])
    /\ UNCHANGED <<buckets, pending, isAddingTask, completedTasks>>

NextTasksLifetime ==
    \/ \E b \in BucketIds : HandleAddTaskClick(b)
    \/ \E b \in BucketIds : HandleSaveNewTask(b)
    \/ \E b \in BucketIds : HandleCancelAddTask(b)
    \/ \E t \in AnyTaskIds : DuplicateTask(t)
    \/ \E t \in AnyTaskIds : UseDuplicateTask(t)
    \/ \E t \in AnyTaskIds : UseUncompleteTask(t)
    \/ \E t \in AnyTaskIds, b \in BucketIds : MoveTaskToBucket(t, b)
    \/ \E t \in AnyTaskIds : UseDeleteTask(t)

SpecTasksLifetime == InitTasksLifetime /\ [][NextTasksLifetime]_vars

\* the names under which the three reorder functions are recorded
ReorderCalls ==
    {"reorderTasksInBucket", "useReorderTasksInBucket", "appReorderTasksInBucket"}

\* the names under which the two ways of creating a task are recorded
CreateCalls == {"handleSaveNewTask", "duplicateTask"}

\* the names under which the two move functions are recorded
MoveCalls == {"moveTaskBetweenBuckets", "useMoveTaskToBucket"}

\* the task of a list with a given id
TaskOf(ts, id) == ts[CHOOSE i \in DOMAIN ts : ts[i].id = id]

\* ids of a bucket's tasks in ascending orderInBucket, ties in array order
SortedIds(ts, bucketId) ==
    LET sorted == SortBy(SelectSeq(ts, LAMBDA t : t.bucketId = bucketId),
                         "orderInBucket")
    IN  [k \in DOMAIN sorted |-> sorted[k].id]

\* a sequence of ids with x taken out and put back at position k (from 1)
Reinserted(ids, x, k) ==
    LET without == SelectSeq(ids, LAMBDA y : y # x)
    IN  SubSeq(without, 1, k - 1) \o <<x>> \o SubSeq(without, k, Len(without))

\* position (from 1) of x in a sequence of ids that holds it
PositionOf(ids, x) == CHOOSE k \in DOMAIN ids : ids[k] = x

\* ------------------------------------------------------------- vocabulary
\* the orderInBucket values of the tasks of a bucket are exactly 0..n-1
Dense(ts, bucketId) ==
    LET mine == {i \in DOMAIN ts : ts[i].bucketId = bucketId}
    IN  /\ {ts[i].orderInBucket : i \in mine} = 0..(Cardinality(mine) - 1)
        /\ \A i, j \in mine : ts[i].orderInBucket = ts[j].orderInBucket => i = j

AllDense(ts) == \A b \in BucketIds : Dense(ts, b)

\* every task's bucketId names a stored bucket
NoOrphans(bs, ts) == \A i \in DOMAIN ts : \E j \in DOMAIN bs : bs[j].id = ts[i].bucketId

HasUnlimited(bs) == \E i \in DOMAIN bs : bs[i].limit = Undefined

WithinLimit(bs, ts, bucketId) ==
    \A i \in DOMAIN bs :
        (bs[i].id = bucketId /\ bs[i].limit # Undefined)
            => TaskCount(ts, bucketId) <= bs[i].limit

\* the handler names of the reorder, the cross-bucket moves and the deletion
ReorderOps == {"reorder"}

CrossBucketMoveOps == {"dropOnTask", "dropOnBucket", "moveTo"}

DeleteBucketOps == {"deleteBucket"}

\* ------------------------------------------------------------------ claims
\* C1: a reorder, a move between buckets or a bucket deletion with relocation
\* that starts from densely numbered buckets (orderInBucket = 0..n-1 in each)
\* leaves every bucket densely numbered.
C1_DensityPreserved ==
    [][(AllDense(tasks)
        /\ last'.op \in ReorderOps \cup CrossBucketMoveOps \cup DeleteBucketOps)
          => AllDense(tasks')]_vars

\* a bucket deletion has relocated tasks behind the tasks of another bucket
C1_Witness ==
    /\ last.op = "deleteBucket" /\ last.result = "ok"
    /\ \E b \in BucketIds : TaskCount(tasks, b) = NumTasks
    /\ AllDense(tasks)

\* C2: a cross-bucket move made by the drag handler or the "Move to" menu
\* never takes the destination bucket over its limit.
C2_CapacityNonViolation ==
    [][last'.op \in CrossBucketMoveOps
          => \A b \in BucketIds :
                 TaskCount(tasks', b) > TaskCount(tasks, b)
                     => WithinLimit(buckets', tasks', b)]_vars

\* C3: once some bucket has no limit, some bucket has no limit after every
\* bucket deletion and every limit update.
C3_UnlimitedBucketPreserved ==
    [][HasUnlimited(buckets) => HasUnlimited(buckets')]_vars

\* limiting the last unlimited bucket was refused
C3_Witness ==
    /\ last.op = "updateBucket"
    /\ last.result = "At least one bucket must have no limit"
    /\ Cardinality({i \in DOMAIN buckets : buckets[i].limit = Undefined}) = 1

\* C4: canDeleteBucket fails on the isOneThing bucket whatever the other
\* buckets hold, and the isOneThing bucket stays in the bucket store.
C4_OneThingNeverDeleted ==
    /\ \E i \in DOMAIN buckets : buckets[i].isOneThing
    /\ \A i \in DOMAIN buckets :
          buckets[i].isOneThing
              => ~canDeleteBucket(buckets[i].id,
                                  hydrateBucketsWithTasks(buckets, tasks)).isValid

\* a deletion of The ONE Thing was asked for and refused
C4_Witness ==
    /\ last.op = "deleteBucket"
    /\ last.result = "Cannot delete The ONE Thing bucket"
    /\ Has(buckets, last.bucketId) /\ Find(buckets, last.bucketId).isOneThing

\* C5: after every write of useUpdateBucket the isOneThing bucket has limit 1.
C5_OneThingLimitIsOne ==
    (last.op = "updateBucket" /\ last.result = "ok")
        => \A i \in DOMAIN buckets : buckets[i].isOneThing => buckets[i].limit = 1

\* C6: a useMoveBucket call leaves the first bucket of the order-sorted list
\* and the order of the isOneThing bucket as they were.
C6_FirstBucketStays ==
    [][last'.op = "moveBucket"
          => /\ SortBy(buckets', "order")[1].id = SortBy(buckets, "order")[1].id
             /\ \A i \in DOMAIN buckets :
                   buckets[i].isOneThing => buckets'[i].order = buckets[i].order
             /\ \A i \in DOMAIN buckets :
                   ( /\ buckets[i].id = last'.bucketId
                     /\ \/ buckets[i].isOneThing
                        \/ buckets[i].id = SortBy(buckets, "order")[1].id )
                       => buckets' = buckets]_vars

\* two buckets behind the first one have swapped places
C6_Witness ==
    /\ last.op = "moveBucket" /\ last.result = "ok"
    /\ \E i, j \in DOMAIN buckets :
          i < j /\ buckets[i].order > buckets[j].order /\ ~buckets[j].isOneThing

\* no bucket other than bucketId can take all of bucketId's tasks
NoRoomElsewhere(bs, ts, bucketId) ==
    \A i \in DOMAIN bs :
        bs[i].id # bucketId
            => /\ bs[i].limit # Undefined
               /\ TaskCount(ts, bs[i].id) + TaskCount(ts, bucketId) > bs[i].limit

\* C7: deleting a bucket that holds tasks when no other bucket has room for
\* all of them fails with an error and writes neither store.
C7_DeleteWithoutRoomWritesNothing ==
    [][( /\ last'.op = "deleteBucket"
         /\ pending = Null
         /\ TaskCount(tasks, last'.bucketId) > 0
         /\ NoRoomElsewhere(buckets, tasks, last'.bucketId) )
          => /\ UNCHANGED <<buckets, tasks, pending>>
             /\ last'.result \notin {"ok", "relocated"}]_vars

\* a deletion failed for want of room and the bucket still holds its tasks
C7_Witness ==
    /\ last.op = "deleteBucket"
    /\ last.result = "No other bucket has space"
    /\ Has(buckets, last.bucketId)
    /\ TaskCount(tasks, last.bucketId) > 0
    /\ NoRoomElsewhere(buckets, tasks, last.bucketId)

\* C8: between the relocation write and the removal of the bucket record, and
\* after the removal, every task names a stored bucket and every bucket is
\* densely numbered.
C8_RelocateBeforeRemove ==
    [][(AllDense(tasks) /\ NoOrphans(buckets, tasks) /\ last'.op = "deleteBucket")
          => (AllDense(tasks') /\ NoOrphans(buckets', tasks'))]_vars

\* the tasks are relocated and the bucket record is still stored
C8_Witness ==
    /\ pending # Null
    /\ Has(buckets, pending)
    /\ TaskCount(tasks, pending) = 0
    /\ last.op = "deleteBucket" /\ last.result = "relocated"

\* C9: findTargetBucketWithCapacity returns the preferred bucket, appending
\* at its task count, when that bucket is given, not excluded, present and has
\* capacity for taskCount more tasks; otherwise the non-excluded bucket with
\* capacity that has the smallest order, appending at its task count; and the
\* result is marked relocated exactly when a preferred id was given and
\* another bucket was chosen.
C9_PlacementResolver ==
    last.op = "findTargetBucketWithCapacity" =>
        LET all == attachTasks(buckets, tasks)
            n == last.result.taskCount
            preferred == last.bucketId
            excluded == last.result.excludeBucketIds
            v == last.result.value
            fits(i) == all[i].limit = Undefined
                           \/ Len(all[i].tasks) + n <= all[i].limit
            eligible == {i \in DOMAIN all : all[i].id \notin excluded /\ fits(i)}
            preferredFits == /\ preferred # Null
                             /\ \E i \in eligible : all[i].id = preferred
        IN  /\ preferredFits =>
                \E i \in eligible :
                    /\ all[i].id = preferred
                    /\ v.bucketId = preferred
                    /\ v.orderInBucket = Len(all[i].tasks)
            /\ (~preferredFits /\ eligible # {}) =>
                \E i \in eligible :
                    /\ \A j \in eligible : all[i].order <= all[j].order
                    /\ v.bucketId = all[i].id
                    /\ v.orderInBucket = Len(all[i].tasks)
            /\ eligible # {} =>
                   v.relocated = (preferred # Null /\ v.bucketId # preferred)

\* the preferred bucket is full, so the resolver fell back to a bucket that
\* is neither first in the array nor the preferred one
C9_Witness ==
    /\ last.op = "findTargetBucketWithCapacity"
    /\ last.bucketId # Null
    /\ last.result.value.bucketId \notin {Null, last.bucketId}
    /\ last.result.value.relocated
    /\ last.result.value.orderInBucket > 0
    /\ buckets[1].id # last.result.value.bucketId

\* C10: canDeleteBucket fails with 'Bucket not found' when no bucket has the
\* id; otherwise fails when the bucket is isOneThing; otherwise fails when the
\* bucket has no limit and is the only bucket without one; and succeeds in
\* every other case.
C10_CanDeleteBucketTable ==
    last.op = "canDeleteBucket" =>
        LET all == attachTasks(buckets, tasks)
            r == last.result
            mine == {i \in DOMAIN all : all[i].id = last.bucketId}
            unlimited == {i \in DOMAIN all : all[i].limit = Undefined}
        IN  IF mine = {} THEN ~r.isValid /\ r.message = "Bucket not found"
            ELSE \A i \in mine :
                    IF all[i].isOneThing THEN ~r.isValid
                    ELSE IF all[i].limit = Undefined /\ Cardinality(unlimited) = 1
                    THEN ~r.isValid
                    ELSE r.isValid

\* one of two unlimited buckets may be deleted
C10_Witness ==
    /\ last.op = "canDeleteBucket"
    /\ last.result.isValid
    /\ \E i \in DOMAIN buckets :
          /\ buckets[i].id = last.bucketId
          /\ buckets[i].limit = Undefined
    /\ Cardinality({i \in DOMAIN buckets : buckets[i].limit = Undefined}) = 2

\* C11: canUpdateBucketLimit fails when the bucket is not found; fails when
\* the bucket is isOneThing and newLimit is not 1; fails when the bucket has
\* no limit, newLimit is defined and no other bucket is unlimited; and
\* succeeds in every other case.
C11_CanUpdateBucketLimitTable ==
    last.op = "canUpdateBucketLimit" =>
        LET all == attachTasks(buckets, tasks)
            newLimit == last.result.newLimit
            r == last.result.value
            mine == {i \in DOMAIN all : all[i].id = last.bucketId}
            others == {i \in DOMAIN all :
                          all[i].id # last.bucketId /\ all[i].limit = Undefined}
        IN  IF mine = {} THEN ~r.isValid
            ELSE \A i \in mine :
                    r.isValid =
                        ~ \/ all[i].isOneThing /\ newLimit # 1
                          \/ /\ all[i].limit = Undefined
                             /\ newLimit # Undefined
                             /\ others = {}

\* a defined limit is changed to another defined limit
C11_Witness ==
    /\ last.op = "canUpdateBucketLimit"
    /\ last.result.value.isValid
    /\ last.result.newLimit # Undefined
    /\ \E i \in DOMAIN buckets :
          /\ buckets[i].id = last.bucketId
          /\ buckets[i].limit \notin {Undefined, last.result.newLimit}
    /\ \A i \in DOMAIN buckets : buckets[i].limit # Undefined

\* C12: canDeleteBucketWithRelocation returns canDeleteBucket's failure when
\* that check fails; otherwise success without a target when the bucket has
\* no tasks; otherwise success with the bucket findFirstBucketWithSpace finds
\* for all of the tasks at once, or a failure when there is none.  A target
\* it returns is another bucket with room for all of the tasks.
C12_CanDeleteBucketWithRelocation ==
    last.op = "canDeleteBucketWithRelocation" =>
        LET all == attachTasks(buckets, tasks)
            b == last.bucketId
            r == last.result
            basic == canDeleteBucket(b, all)
            n == TaskCount(tasks, b)
            found == findFirstBucketWithSpace(b, n, all)
        IN  /\ ~basic.isValid => r = basic
            /\ (basic.isValid /\ n = 0) => (r.isValid /\ r.targetBucketId = Null)
            /\ (basic.isValid /\ n > 0 /\ found # Null)
                   => (r.isValid /\ r.targetBucketId = found)
            /\ (basic.isValid /\ n > 0 /\ found = Null) => ~r.isValid
            /\ r.targetBucketId # Null
                   => /\ r.targetBucketId # b
                      /\ \E i \in DOMAIN all :
                            /\ all[i].id = r.targetBucketId
                            /\ \/ all[i].limit = Undefined
                               \/ Len(all[i].tasks) + n <= all[i].limit

\* two tasks go to a limited bucket that already holds one
C12_Witness ==
    /\ last.op = "canDeleteBucketWithRelocation"
    /\ last.result.isValid
    /\ TaskCount(tasks, last.bucketId) = 2
    /\ \E i \in DOMAIN buckets :
          /\ buckets[i].id = last.result.targetBucketId
          /\ buckets[i].limit # Undefined
          /\ TaskCount(tasks, buckets[i].id) + 2 = buckets[i].limit

\* C13: findFirstBucketWithSpace returns, among the buckets other than the
\* source, the one of smallest order whose space (limit minus task count,
\* unbounded without a limit) is at least taskCount, whatever the order of
\* the array; and null when taskCount is 0 or no bucket qualifies.
C13_FindFirstBucketWithSpace ==
    last.op = "findFirstBucketWithSpace" =>
        LET all == attachTasks(buckets, tasks)
            n == last.result.taskCount
            v == last.result.value
            qualifies == {i \in DOMAIN all :
                             /\ all[i].id # last.bucketId
                             /\ \/ all[i].limit = Undefined
                                \/ all[i].limit - Len(all[i].tasks) >= n}
        IN  IF n = 0 \/ qualifies = {} THEN v = Null
            ELSE \E i \in qualifies :
                    /\ \A j \in qualifies : all[i].order <= all[j].order
                    /\ v = all[i].id

\* the bucket found comes later in the array than another that qualifies
C13_Witness ==
    /\ last.op = "findFirstBucketWithSpace"
    /\ last.result.value # Null
    /\ last.result.taskCount = 2
    /\ \E i, j \in DOMAIN buckets :
          /\ i < j
          /\ buckets[j].id = last.result.value
          /\ buckets[i].id # last.bucketId
          /\ buckets[i].limit = Undefined
          /\ buckets[j].limit # Undefined

\* C14: reordering task A onto task B of the same bucket gives the bucket's
\* order-sorted list with A taken out and put back at the index B had,
\* numbered 0..n-1.
C14_ReorderReinsertsAtOverIndex ==
    (last.op \in ReorderCalls
     /\ TaskOf(last.result.before, last.result.activeId).bucketId
            = TaskOf(last.result.before, last.result.overId).bucketId)
        => LET was == SortedIds(last.result.before, last.bucketId)
               expected == Reinserted(was, last.result.activeId,
                                      PositionOf(was, last.result.overId))
           IN  \A k \in DOMAIN expected :
                   TaskOf(tasks, expected[k]).orderInBucket = k - 1

\* the first of three tasks was dropped on the third: t2 = 0, t3 = 1, t1 = 2
C14_Witness ==
    /\ last.op \in ReorderCalls
    /\ last.result.activeId = 1 /\ last.result.overId = 3
    /\ SortedIds(last.result.before, last.bucketId) = <<1, 2, 3>>
    /\ SortedIds(tasks, last.bucketId) = <<2, 3, 1>>
    /\ TaskOf(tasks, 2).orderInBucket = 0
    /\ TaskOf(tasks, 1).orderInBucket = 2

\* C15: a reorder within bucket B changes no task's bucketId, leaves every
\* task of another bucket as it was, keeps the set of tasks of B, and is
\* carried out whatever the limit of B.
C15_ReorderStaysInBucket ==
    last.op \in ReorderCalls
        => LET was == last.result.before
               a == last.result.activeId
               o == last.result.overId
           IN  /\ \A id \in TaskIds :
                      /\ TaskOf(tasks, id).bucketId = TaskOf(was, id).bucketId
                      /\ TaskOf(was, id).bucketId # last.bucketId
                             => TaskOf(tasks, id) = TaskOf(was, id)
               /\ {tasks[i].id : i \in DOMAIN tasks} = TaskIds
               /\ Len(tasks) = Len(was)
               /\ TaskOf(was, o).bucketId = last.bucketId
                      => TaskOf(tasks, a).orderInBucket
                             = PositionOf(SortedIds(was, last.bucketId), o) - 1

\* The ONE Thing, at its limit of 1, has its task dropped on itself while the
\* tasks of another bucket keep orders a renumbering would have changed
C15_Witness ==
    /\ last.op \in ReorderCalls
    /\ \E i \in DOMAIN buckets :
          /\ buckets[i].id = last.bucketId
          /\ buckets[i].limit = 1
    /\ SortedIds(tasks, last.bucketId) = <<last.result.activeId>>
    /\ \E i \in DOMAIN tasks :
          tasks[i].bucketId # last.bucketId /\ tasks[i].orderInBucket = 2

\* C16: reordering a task onto itself in a densely numbered bucket leaves
\* every task with the orderInBucket it had.
C16_ReorderOntoItself ==
    (last.op \in ReorderCalls
     /\ last.result.activeId = last.result.overId
     /\ Dense(last.result.before, last.bucketId))
        => Range(tasks) = Range(last.result.before)

\* the middle task of a dense bucket of three was dropped on itself
C16_Witness ==
    /\ last.op \in ReorderCalls
    /\ last.result.activeId = last.result.overId
    /\ Dense(last.result.before, last.bucketId)
    /\ Len(SortedIds(last.result.before, last.bucketId)) = 3
    /\ TaskOf(tasks, last.result.activeId).orderInBucket = 1

\* C17: moving task D from bucket S to another bucket T puts D at the index
\* the target task had in T, or at the end of T when no target task is given
\* or it is not in T; T is numbered 0..|T|, the tasks left in S are numbered
\* 0..|S|-2 in their former order, and the other buckets' tasks are unchanged.
C17_MoveBetweenBuckets ==
    last.op \in MoveCalls
        => LET was == last.result.before
               d == last.result.activeId
               target == last.result.overId
               T == last.bucketId
               S == TaskOf(was, d).bucketId
               wasT == SortedIds(was, T)
               leftInS == SelectSeq(SortedIds(was, S), LAMBDA id : id # d)
               k == IF \E i \in DOMAIN wasT : wasT[i] = target
                    THEN PositionOf(wasT, target) ELSE Len(wasT) + 1
               expectedT == Reinserted(wasT, d, k)
           IN  /\ \A i \in DOMAIN expectedT :
                      /\ TaskOf(tasks, expectedT[i]).bucketId = T
                      /\ TaskOf(tasks, expectedT[i]).orderInBucket = i - 1
               /\ \A i \in DOMAIN leftInS :
                      /\ TaskOf(tasks, leftInS[i]).bucketId = S
                      /\ TaskOf(tasks, leftInS[i]).orderInBucket = i - 1
               /\ \A id \in TaskIds :
                      TaskOf(was, id).bucketId \notin {S, T}
                          => TaskOf(tasks, id) = TaskOf(was, id)

\* the first of two tasks moved, without target task, to a bucket of one
C17_Witness ==
    /\ last.op \in MoveCalls
    /\ last.result.activeId = 1 /\ last.result.overId = Null
    /\ SortedIds(last.result.before, TaskOf(last.result.before, 1).bucketId) = <<1, 2>>
    /\ SortedIds(last.result.before, last.bucketId) = <<3>>
    /\ TaskOf(last.result.before, 2).orderInBucket = 1
    /\ TaskOf(tasks, 1) = [id |-> 1, bucketId |-> last.bucketId, orderInBucket |-> 1]
    /\ TaskOf(tasks, 2).orderInBucket = 0
    /\ TaskOf(tasks, 3) = TaskOf(last.result.before, 3)

\* a bucket other than bucketId with room for n more tasks
HasRoomFor(bs, ts, id, n) ==
    \E i \in DOMAIN bs :
        /\ bs[i].id = id
        /\ bs[i].limit = Undefined \/ TaskCount(ts, id) + n <= bs[i].limit

\* C18: when a bucket with tasks is deleted, the i-th task of its sorted list
\* gets the resolved target bucket and orderInBucket = the target's task
\* count + i, and no task outside the deleted bucket is patched.
C18_RelocationAppends ==
    [][(last'.op = "deleteBucket" /\ last'.result = "relocated")
          => LET b == last'.bucketId
                 moved == SortedIds(tasks, b)
             IN  /\ moved # <<>>
                 /\ \E i \in DOMAIN buckets :
                       LET t == buckets[i].id
                       IN  /\ t # b
                           /\ HasRoomFor(buckets, tasks, t, Len(moved))
                           /\ \A j \in DOMAIN buckets :
                                 ( /\ buckets[j].id # b
                                   /\ HasRoomFor(buckets, tasks, buckets[j].id,
                                                 Len(moved)) )
                                     => buckets[i].order <= buckets[j].order
                           /\ \A k \in DOMAIN moved :
                                 TaskOf(tasks', moved[k])
                                     = [id |-> moved[k], bucketId |-> t,
                                        orderInBucket |->
                                            TaskCount(tasks, t) + k - 1]
                 /\ \A id \in TaskIds :
                       TaskOf(tasks, id).bucketId # b
                           => TaskOf(tasks', id) = TaskOf(tasks, id)]_vars

\* two tasks were relocated behind the one task of their target
C18_Witness ==
    /\ last.op = "deleteBucket" /\ last.result = "relocated"
    /\ pending # Null
    /\ \E t \in BucketIds :
          /\ t # pending
          /\ Len(SortedIds(tasks, t)) = 3
          /\ TaskOf(tasks, SortedIds(tasks, t)[1]).orderInBucket = 0
          /\ TaskOf(tasks, SortedIds(tasks, t)[3]).orderInBucket = 2

\* C19: hydrateBucketsWithTasks returns the buckets in ascending order, each
\* with exactly the tasks whose bucketId is its id, in ascending
\* orderInBucket; a task of a listed bucket is in one list, a task of no
\* listed bucket in none.
C19_Hydration ==
    last.op = "hydrateBucketsWithTasks" =>
        LET h == last.result
            own(id) == {k \in DOMAIN tasks : tasks[k].bucketId = id}
        IN  /\ Len(h) = Len(buckets)
            /\ \A j \in DOMAIN buckets :
                  \E i \in DOMAIN h :
                      /\ h[i].id = buckets[j].id
                      /\ h[i].order = buckets[j].order
                      /\ h[i].limit = buckets[j].limit
                      /\ h[i].isOneThing = buckets[j].isOneThing
            /\ \A i, j \in DOMAIN h : i < j => h[i].order <= h[j].order
            /\ \A i \in DOMAIN h :
                  /\ Range(h[i].tasks) = {tasks[k] : k \in own(h[i].id)}
                  /\ Len(h[i].tasks) = Cardinality(own(h[i].id))
                  /\ \A a, b \in DOMAIN h[i].tasks :
                        a < b => h[i].tasks[a].orderInBucket
                                     <= h[i].tasks[b].orderInBucket
            /\ \A k \in DOMAIN tasks :
                  Cardinality({i \in DOMAIN h : tasks[k] \in Range(h[i].tasks)})
                      = IF \E j \in DOMAIN buckets : buckets[j].id = tasks[k].bucketId
                        THEN 1 ELSE 0

\* buckets stored in descending order come out ascending, and the tasks of
\* one of them, stored in descending orderInBucket, come out ascending
C19_Witness ==
    /\ last.op = "hydrateBucketsWithTasks"
    /\ buckets[1].order > buckets[2].order
    /\ last.result[1].id = buckets[Len(buckets)].id
    /\ \E i \in DOMAIN last.result :
          /\ Len(last.result[i].tasks) = 3
          /\ last.result[i].tasks[1].id = 3
          /\ last.result[i].tasks[3].id = 1
          /\ last.result[i].tasks[1].orderInBucket
                 < last.result[i].tasks[3].orderInBucket

\* C20: a task created in bucket B, by the add row or by duplication, is
\* appended to the stored list with orderInBucket equal to the number of
\* tasks B held, and nothing else changes; when B's values were 0..n-1 the
\* new task is the last of B's hydrated list and B's values are 0..n.
C20_CreatedTaskIsLast ==
    (last.op \in CreateCalls /\ last.result.created # Null) =>
        LET before == last.result.before
            B == last.bucketId
            new == tasks[Len(tasks)]
            n == TaskCount(before, B)
        IN  /\ tasks = Append(before, new)
            /\ new.id = last.result.created
            /\ \A i \in DOMAIN before : before[i].id # new.id
            /\ new.bucketId = B
            /\ new.orderInBucket = n
            /\ Dense(before, B) =>
                  /\ Dense(tasks, B)
                  /\ {tasks[i].orderInBucket :
                         i \in {j \in DOMAIN tasks : tasks[j].bucketId = B}} = 0..n
                  /\ SortedIds(tasks, B) = Append(SortedIds(before, B), new.id)
                  /\ Has(buckets, B) =>
                        LET list == Find(hydrateBucketsWithTasks(buckets, tasks),
                                         B).tasks
                        IN  list[Len(list)] = new

\* the copy of the one task of the full ONE Thing bucket is stored behind
\* the two tasks of the next bucket
C20_Witness ==
    /\ last.op = "duplicateTask"
    /\ last.result.created # Null
    /\ Dense(last.result.before, last.bucketId)
    /\ TaskCount(last.result.before, last.bucketId) = 2
    /\ tasks[Len(tasks)].orderInBucket = 2
    /\ Len(tasks) = NumTasks + 1
    /\ \E t \in TaskIds :
          /\ TaskOf(last.result.before, t).bucketId # last.bucketId
          /\ TaskCount(last.result.before,
                       TaskOf(last.result.before, t).bucketId) = 1

\* the order values of the stored buckets are pairwise distinct and are 0..m-1
BucketOrdersDense(bs) ==
    /\ {bs[i].order : i \in DOMAIN bs} = 0..(Len(bs) - 1)
    /\ \A i, j \in DOMAIN bs : bs[i].order = bs[j].order => i = j

\* C21: after any sequence of bucket moves and bucket deletions the order
\* values of the stored buckets are pairwise distinct and exactly 0..m-1.
C21_BucketOrdersDense == BucketOrdersDense(buckets)

\* C22: the result of canUpdateBucketLimit is the same for bucket lists that
\* agree on ids, limits and flags and differ in their tasks: the result for
\* the tasks at hand equals the result for every other placement of the
\* tasks and for buckets holding no task at all.
C22_LimitRuleIgnoresTasks ==
    last.op = "canUpdateBucketLimit" =>
        /\ \A place \in [TaskIds -> BucketIds] :
              canUpdateBucketLimit(last.bucketId, last.result.newLimit,
                                   attachTasks(buckets, InitTasks(place)))
                  = last.result.value
        /\ canUpdateBucketLimit(last.bucketId, last.result.newLimit,
                                attachTasks(buckets, <<>>))
               = last.result.value

\* a limit of 1 is accepted for a bucket that holds every task
C22_Witness ==
    /\ last.op = "canUpdateBucketLimit"
    /\ last.result.value.isValid
    /\ last.result.newLimit = 1
    /\ TaskCount(tasks, last.bucketId) = NumTasks
    /\ Len(Find(attachTasks(buckets, tasks), last.bucketId).tasks) = NumTasks

\* the names under which the ways of adding a task to the board are recorded
AddCalls == {"handleSaveNewTask", "duplicateTask", "useDuplicateTask", "useUncompleteTask"}

\* C23: adding a task to the board (add row, duplication, un-completion)
\* never leaves the bucket that received it above its limit.
C23_AddingKeepsLimits ==
    (last.op \in AddCalls /\ last.result.created # Null)
        => WithinLimit(buckets, tasks, last.bucketId)

\* C24: after the "Move to" operation of useTaskOperations has moved a task
\* between two densely numbered buckets, the orderInBucket values of the
\* source bucket and of the target bucket are exactly 0..n-1.
C24_MoveToKeepsDensity ==
    (/\ last.op = "moveTaskToBucket"
     /\ Dense(last.result.before, last.result.sourceBucketId)
     /\ Dense(last.result.before, last.bucketId))
        => /\ Dense(tasks, last.result.sourceBucketId)
           /\ Dense(tasks, last.bucketId)

\* C25: after a task of a densely numbered bucket is deleted, the
\* orderInBucket values of the bucket's remaining tasks are exactly 0..n-1.
C25_DeleteKeepsDensity ==
    (last.op = "deleteTask" /\ Dense(last.result.before, last.bucketId))
        => Dense(tasks, last.bucketId)

\* C26: a bucket deletion that goes through moves all the tasks the bucket
\* held into one single other stored bucket, which is then within its limit,
\* and ends with the bucket gone from the store and no task naming it.
C26_DeletedBucketIsEmptiedIntoOne ==
    [][(last'.op = "deleteBucket" /\ last'.result \in {"relocated", "ok"})
          => LET b == last'.bucketId
                 held == {id \in TaskIds : TaskOf(tasks, id).bucketId = b}
             IN  /\ \A id \in TaskIds : TaskOf(tasks', id).bucketId # b
                 /\ last'.result = "ok" => ~Has(buckets', b)
                 /\ last'.result = "relocated" =>
                       /\ held # {}
                       /\ \E t \in BucketIds \ {b} :
                             /\ Has(buckets', t)
                             /\ \A id \in held : TaskOf(tasks', id).bucketId = t
                             /\ WithinLimit(buckets', tasks', t)
                 /\ \A id \in TaskIds \ held : TaskOf(tasks', id) = TaskOf(tasks, id)]_vars

\* a bucket that held two tasks is gone, and its tasks fill a bucket of limit 2
C26_Witness ==
    /\ last.op = "deleteBucket" /\ last.result = "ok"
    /\ ~Has(buckets, last.bucketId)
    /\ Len(buckets) = NumBuckets - 1
    /\ \E i \in DOMAIN buckets :
          /\ buckets[i].limit = 2
          /\ TaskCount(tasks, buckets[i].id) = 2
          /\ \E j \in DOMAIN buckets : TaskCount(tasks, buckets[j].id) = 1

\* C27: when the write that relocates the tasks of a bucket under deletion
\* fails, neither store changes, no removal is left to run, and the next
\* step does not remove the bucket.
C27_FailedRelocationKeepsBucket ==
    [][/\ (last'.op = "deleteBucket" /\ last'.result = "write failed")
             => /\ buckets' = buckets
                /\ tasks' = tasks
                /\ Has(buckets', last'.bucketId)
                /\ pending' = Null
       /\ (last.op = "deleteBucket" /\ last.result = "write failed")
             => Has(buckets', last.bucketId)]_vars

\* the write failed for a bucket that holds two tasks and is still stored
C27_Witness ==
    /\ last.op = "deleteBucket" /\ last.result = "write failed"
    /\ Has(buckets, last.bucketId)
    /\ TaskCount(tasks, last.bucketId) = 2
    /\ pending = Null

\* the stored buckets after useMoveBucket(bucketId, direction)
AfterMoveBucket(bs, bucketId, direction) ==
    bulkUpdateBuckets(bs, useMoveBucket(bs, bucketId, direction))

\* C28: a useMoveBucket call that takes effect swaps the order values of two
\* buckets adjacent in the order-sorted list, one of them the moved bucket,
\* and changes nothing else, so the order values in use stay the same; a call
\* that does not take effect changes nothing; up followed by down, both
\* taking effect, restores the stored buckets; the last bucket moved down and
\* a bucket that is not stored change nothing.
C28_MoveBucketSwapsNeighbours ==
    /\ [][last'.op = "moveBucket"
            => LET sorted == SortBy(buckets, "order")
                   b == last'.bucketId
               IN  /\ last'.result = "noop" => buckets' = buckets
                   /\ last'.result = "ok" =>
                         /\ Len(buckets') = Len(buckets)
                         /\ {buckets'[i].order : i \in DOMAIN buckets'}
                                = {buckets[i].order : i \in DOMAIN buckets}
                         /\ \E k \in 1..(Len(sorted) - 1) :
                               /\ b \in {sorted[k].id, sorted[k + 1].id}
                               /\ \A i \in DOMAIN buckets :
                                     buckets'[i] =
                                         IF buckets[i].id = sorted[k].id
                                         THEN [buckets[i] EXCEPT
                                                  !.order = sorted[k + 1].order]
                                         ELSE IF buckets[i].id = sorted[k + 1].id
                                         THEN [buckets[i] EXCEPT
                                                  !.order = sorted[k].order]
                                         ELSE buckets[i]]_vars
    /\ [](\A b \in BucketIds :
             LET up == AfterMoveBucket(buckets, b, "up")
                 sorted == SortBy(buckets, "order")
             IN  /\ (up # buckets /\ AfterMoveBucket(up, b, "down") # up)
                       => AfterMoveBucket(up, b, "down") = buckets
                 /\ (buckets # <<>> /\ sorted[Len(sorted)].id = b)
                       => AfterMoveBucket(buckets, b, "down") = buckets
                 /\ ~Has(buckets, b)
                       => /\ AfterMoveBucket(buckets, b, "up") = buckets
                          /\ AfterMoveBucket(buckets, b, "down") = buckets)

\* the second and the third bucket have exchanged their order values
C28_Witness ==
    /\ last.op = "moveBucket" /\ last.result = "ok"
    /\ Len(buckets) = NumBuckets
    /\ buckets[2].order = 2
    /\ buckets[3].order = 1
    /\ AfterMoveBucket(buckets, 2, "up") # buckets
    /\ AfterMoveBucket(AfterMoveBucket(buckets, 2, "up"), 2, "down") = buckets

\* the names under which the two hooks with a cache patch are recorded
OptimisticCalls == {"useReorderTasksInBucket.cache", "useMoveTaskToBucket.cache"}

\* C29: for a reorder or a move between buckets called when cache and store
\* hold the same list, the cache after the synchronous patch and the store
\* after bulkUpdateTasks of the same patch list hold the same tasks as
\* before, in the same array order, and agree on every task's bucketId and
\* orderInBucket; a patch for an id no task has creates no task.
C29_CacheAgreesWithStore ==
    last.op \in OptimisticCalls =>
        LET r == last.result
        IN  /\ Len(r.cached) = Len(r.before)
            /\ Len(r.stored) = Len(r.before)
            /\ \A i \in DOMAIN r.before :
                  /\ r.cached[i].id = r.before[i].id
                  /\ r.stored[i].id = r.before[i].id
                  /\ r.cached[i].bucketId = r.stored[i].bucketId
                  /\ r.cached[i].orderInBucket = r.stored[i].orderInBucket
                  /\ ~MapHas(r.updates, r.before[i].id)
                        => (r.cached[i] = r.before[i] /\ r.stored[i] = r.before[i])
            /\ tasks = r.stored

\* a move of a task that is no longer in the list: its patch is in the batch,
\* the tasks of the target bucket are renumbered, and no task is added
C29_Witness ==
    /\ last.op = "useMoveTaskToBucket.cache"
    /\ \E k \in DOMAIN last.result.updates :
          ~Has(last.result.before, last.result.updates[k].id)
    /\ Len(last.result.before) = NumTasks - 1
    /\ last.result.cached # last.result.before
    /\ Len(last.result.cached) = NumTasks - 1

\* the names under which the App's capacity check and move are recorded
AppMoveCalls == {"canMoveTaskToBucket", "appMoveTaskToBucket"}

\* C30: canMoveTaskToBucket is false exactly when the target bucket has a
\* limit, the task is not in the target, and the target holds at least limit
\* tasks; the App's moveTaskToBucket leaves the task list as it was when the
\* check is false.
C30_AppMoveRespectsCapacity ==
    last.op \in AppMoveCalls =>
        LET before == last.result.before
            target == last.bucketId
            hasLimit == \E i \in DOMAIN buckets :
                           /\ buckets[i].id = target
                           /\ buckets[i].limit # Undefined
            limit == (CHOOSE b \in Range(buckets) : b.id = target).limit
            inTarget == TaskOf(before, last.result.activeId).bucketId = target
        IN  /\ last.result.canMove
                = ~(hasLimit /\ ~inTarget /\ TaskCount(before, target) >= limit)
            /\ (last.op = "appMoveTaskToBucket" /\ ~last.result.canMove)
                  => tasks = before

\* a task dropped on the full ONE Thing bucket stays where it was
C30_Witness ==
    /\ last.op = "appMoveTaskToBucket"
    /\ ~last.result.canMove
    /\ tasks = last.result.before
    /\ TaskCount(tasks, last.bucketId) = 1
    /\ \E i \in DOMAIN buckets :
          buckets[i].id = last.bucketId /\ buckets[i].limit = 1
    /\ TaskOf(tasks, last.result.activeId).bucketId # last.bucketId

====
